---- MODULE Spec2Model ----
(***************************************************************************)
(* Verification model of the wildcards-gen taxonomy-shaping core:          *)
(*   - TraversalBudget            (wildcards_gen/core/smart.py)            *)
(*   - Tencent traversal engine   (wildcards_gen/core/datasets/tencent.py) *)
(*   - ConstraintShaper           (wildcards_gen/core/shaper.py)           *)
(*   - embedding cache            (wildcards_gen/core/arranger.py)         *)
(*   - clustering passes          (wildcards_gen/core/arranger.py)         *)
(*   - UMAP cache                 (wildcards_gen/core/arranger.py)         *)
(*   - Pruner and SmartConfig     (wildcards_gen/core/smart.py)            *)
(*                                                                         *)
(* Python strings are modelled as sequences of one-character strings so    *)
(* that lower(), strip(), title(), startswith() and the sort order are     *)
(* computed character by character, as the interpreter computes them.      *)
(***************************************************************************)
EXTENDS Integers, Sequences, FiniteSets, TLC

(***************************************************************************)
(* Bounds of the model                                                     *)
(***************************************************************************)
MaxLimit == 4        \* largest finite budget limit drawn
MaxCalls == 7        \* longest sequence of consume() calls explored
MaxAmount == 2       \* largest amount passed to consume()
MaxItems == 2        \* longest Leaf List of a drawn input structure
MinLeaf == 2         \* the non-zero min_leaf_size drawn
MaxNodes == 5        \* rows of a drawn source hierarchy
MaxPreview == 3      \* largest preview_limit drawn for a traversal
MaxTerms == 3        \* longest term list handed to get_cached_embeddings
MaxCacheCalls == 3   \* get_cached_embeddings calls explored in one process
MaxWorkers == 2      \* workers calling get_cached_embeddings concurrently
MaxPassTerms == 5    \* longest term list whose fits are all drawn
MaxChildCount == 3   \* largest child count handed to should_prune_node
MaxUmapCalls == 4     \* compute_umap_embeddings calls in a run of the UMAP cache
MaxUmapSize == 2      \* largest maximum size a test sets for the UMAP cache
MaxGrouped == 4      \* terms beyond the recovery threshold in the long lists; largest block

(***************************************************************************)
(* Python str, character by character                                      *)
(***************************************************************************)
Uppers == <<"A","B","C","D","E","F","G","H","I","J","K","L","M",
            "N","O","P","Q","R","S","T","U","V","W","X","Y","Z">>
Lowers == <<"a","b","c","d","e","f","g","h","i","j","k","l","m",
            "n","o","p","q","r","s","t","u","v","w","x","y","z">>
\* the characters in code-point order: ' ' ( ) , 0-6 A-Z _ a-z { }
AsciiOrder == <<" ", "(", ")", ",", "0", "1", "2", "3", "4", "5", "6">> \o Uppers \o <<"_">> \o Lowers \o <<"{", "}">>

SeqRange(s) == { s[i] : i \in 1..Len(s) }
Chars == SeqRange(AsciiOrder)

Ord == [c \in Chars |-> CHOOSE i \in 1..Len(AsciiOrder) : AsciiOrder[i] = c]
IsUpperChar == [c \in Chars |-> c \in SeqRange(Uppers)]
IsLowerChar == [c \in Chars |-> c \in SeqRange(Lowers)]
IsCased(c) == IsUpperChar[c] \/ IsLowerChar[c]
LowerChar == [c \in Chars |->
    IF IsUpperChar[c] THEN Lowers[CHOOSE i \in 1..26 : Uppers[i] = c] ELSE c]
UpperChar == [c \in Chars |->
    IF IsLowerChar[c] THEN Uppers[CHOOSE i \in 1..26 : Lowers[i] = c] ELSE c]

\* str.lower() (and str.casefold() on ASCII)
StrLower(s) == [i \in 1..Len(s) |-> LowerChar[s[i]]]

\* str.title(): a cased character is upper-cased when the previous character
\* is uncased (or it is the first), lower-cased otherwise
StrTitle(s) == [i \in 1..Len(s) |->
    IF i > 1 /\ IsCased(s[i-1]) THEN LowerChar[s[i]] ELSE UpperChar[s[i]]]

\* str.strip(): drop leading and trailing blanks
RECURSIVE LStrip(_)
LStrip(s) == IF s # <<>> /\ Head(s) = " " THEN LStrip(Tail(s)) ELSE s
RECURSIVE RStrip(_)
RStrip(s) == IF s # <<>> /\ s[Len(s)] = " " THEN RStrip(SubSeq(s, 1, Len(s)-1)) ELSE s
StrStrip(s) == RStrip(LStrip(s))

\* str.startswith(p)
StartsWith(s, p) == Len(s) >= Len(p) /\ SubSeq(s, 1, Len(p)) = p

\* s < t in Python's code-point order
RECURSIVE StrLess(_, _)
StrLess(s, t) ==
    IF t = <<>> THEN FALSE
    ELSE IF s = <<>> THEN TRUE
    ELSE IF Ord[Head(s)] # Ord[Head(t)] THEN Ord[Head(s)] < Ord[Head(t)]
    ELSE StrLess(Tail(s), Tail(t))

\* the positions where the two-character substring p starts in s
FindAll(s, p) == { i \in 1..(Len(s)-1) : s[i] = p[1] /\ s[i+1] = p[2] }
S_Braces == <<"{", "}">>
\* "{}" in s
HasBraces(s) == FindAll(s, S_Braces) # {}
\* s.format(arg) for a template with one "{}" field
StrFormat(s, arg) ==
    LET i == CHOOSE j \in FindAll(s, S_Braces) : \A m \in FindAll(s, S_Braces) : j <= m
    IN SubSeq(s, 1, i-1) \o arg \o SubSeq(s, i+2, Len(s))
\* s.split(',')[0]
RECURSIVE BeforeComma(_)
BeforeComma(s) ==
    IF s = <<>> \/ Head(s) = "," THEN <<>> ELSE <<Head(s)>> \o BeforeComma(Tail(s))

(***************************************************************************)
(* Python list helpers                                                     *)
(***************************************************************************)
\* list(set(xs)) up to order: every value once
RECURSIVE Dedup(_)
Dedup(xs) ==
    IF xs = <<>> THEN <<>>
    ELSE LET r == Dedup(SubSeq(xs, 1, Len(xs)-1))
             x == xs[Len(xs)]
         IN IF x \in SeqRange(r) THEN r ELSE Append(r, x)

\* insert x into the sorted list ys after every element whose key is <= key(x)
RECURSIVE InsertSorted(_, _, _)
InsertSorted(x, ys, fold) ==
    IF ys = <<>> THEN <<x>>
    ELSE LET kx == IF fold THEN StrLower(x) ELSE x
             ky == IF fold THEN StrLower(Head(ys)) ELSE Head(ys)
         IN IF StrLess(kx, ky) THEN <<x>> \o ys
            ELSE <<Head(ys)>> \o InsertSorted(x, Tail(ys), fold)

\* sorted(xs) / sorted(xs, key=str.casefold): a stable sort
RECURSIVE SortedBy(_, _)
SortedBy(xs, fold) ==
    IF xs = <<>> THEN <<>>
    ELSE InsertSorted(xs[Len(xs)], SortedBy(SubSeq(xs, 1, Len(xs)-1), fold), fold)
Sorted(xs) == SortedBy(xs, FALSE)
SortedCasefold(xs) == SortedBy(xs, TRUE)

IsSorted(xs) == \A i \in 1..(Len(xs)-1) : ~StrLess(xs[i+1], xs[i])
NoDup(xs) == \A i, j \in 1..Len(xs) : i # j => xs[i] # xs[j]

(***************************************************************************)
(* Structure nodes: a Leaf List or a Category (an insertion-ordered dict)  *)
(***************************************************************************)
L(xs) == [t |-> "list", items |-> xs, kv |-> <<>>, ca |-> <<>>]
\* a mapping and its per-key annotations (CommentedMap.ca.items), both in
\* insertion order; a mapping without annotations has none
CM(es, annotations) == [t |-> "dict", items |-> <<>>, kv |-> es, ca |-> annotations]
D(es) == CM(es, <<>>)
E(key, val) == [k |-> key, v |-> val]

PyNone == [t |-> "none", items |-> <<>>, kv |-> <<>>, ca |-> <<>>]    \* None
\* the call raised instead of returning a node
RaisedNode == [t |-> "raised", items |-> <<>>, kv |-> <<>>, ca |-> <<>>]
IsRaised(n) == n.t = "raised"
\* a key or an item that is not a str: the int 1
Int1 == <<"int:1">>
IsPyStr(x) == x # Int1
\* str(x)
PyStr(x) == IF x = Int1 THEN <<"1">> ELSE x
\* {} as a mapping
EmptyMap == [k \in {} |-> <<>>]

IsList(n) == n.t = "list"
IsDict(n) == n.t = "dict"
\* a str where a node is expected: the string is the one element of items
Str(s) == [t |-> "str", items |-> <<s>>, kv |-> <<>>, ca |-> <<>>]
IsStr(n) == n.t = "str"
\* bool(value)
Truthy(n) ==
    CASE IsList(n) -> n.items # <<>>
      [] IsDict(n) -> n.kv # <<>>
      [] IsStr(n) -> n.items[1] # <<>>
      [] OTHER -> FALSE
\* value if value else None
OrNone(n) == IF Truthy(n) THEN n ELSE PyNone
\* list(value): the items of a list, the characters of a str
Elements(n) ==
    IF IsStr(n) THEN [i \in 1..Len(n.items[1]) |-> <<n.items[1][i]>>] ELSE n.items

\* dict operations on the entry sequence, keeping Python's insertion order
DKeys(es) == [i \in 1..Len(es) |-> es[i].k]
DHas(es, key) == \E i \in 1..Len(es) : es[i].k = key
DGet(es, key) == es[CHOOSE i \in 1..Len(es) : es[i].k = key].v
\* d[key] = val : in place when the key exists, appended otherwise
DSet(es, key, val) ==
    IF DHas(es, key)
    THEN [i \in 1..Len(es) |-> IF es[i].k = key THEN E(key, val) ELSE es[i]]
    ELSE Append(es, E(key, val))
\* d.pop(key)
DPop(es, key) == SelectSeq(es, LAMBDA e : e.k # key)
\* d.update(other)
RECURSIVE DUpdate(_, _)
DUpdate(es, other) ==
    IF other = <<>> THEN es
    ELSE DUpdate(DSet(es, Head(other).k, Head(other).v), Tail(other))

\* the concatenation of a sequence of lists
RECURSIVE Flat(_)
Flat(xss) == IF xss = <<>> THEN <<>> ELSE Head(xss) \o Flat(Tail(xss))

(***************************************************************************)
(* String constants of shaper.py                                           *)
(***************************************************************************)
S_other == <<"o","t","h","e","r">>
S_misc == <<"m","i","s","c">>
S_Other == <<"O","t","h","e","r">>
S_Group == <<"G","r","o","u","p">>
S_other_braces == <<"o","t","h","e","r","_","{","}">>
S_OtherParen == <<"O","t","h","e","r"," ","(">>
S_miscParen == <<"m","i","s","c"," ","(">>
S_miscCategory1 == <<"m","i","s","c"," ","(","C","a","t","e","g","o","r","y"," ","1",")">>
S_General == <<"G","e","n","e","r","a","l"," ">>
NoTemplate == <<>>     \* orphans_label_template = None (or the empty string)

(***************************************************************************)
(* arranger.py: contextual label of a merged bin                           *)
(***************************************************************************)
\* a term holds a token of TfidfVectorizer's pattern \b\w\w+\b : two
\* adjacent word characters
IsWordChar(c) == IsCased(c) \/ c \in {"_", "0", "1", "2", "3", "4", "5", "6"}
HasWordToken(term) ==
    \E i \in 1..(Len(term)-1) : IsWordChar(term[i]) /\ IsWordChar(term[i+1])

\* extract_unique_keywords: no keyword when a document is empty or when the
\* corpus has no token (the vectorizer raises, the handler returns []).
\* The scoring of a corpus with tokens is outside the modelled vocabulary,
\* whose terms are single characters.
extract_unique_keywords(cluster_terms, all_terms) ==
    CASE cluster_terms = <<>> \/ all_terms = <<>> -> <<>>
      [] SelectSeq(all_terms, LAMBDA x : x \notin SeqRange(cluster_terms)) = <<>> -> <<>>
      [] \A i \in 1..Len(cluster_terms) : ~HasWordToken(cluster_terms[i]) -> <<>>

\* generate_contextual_label
generate_contextual_label(terms, context_terms, fallback) ==
    IF terms = <<>> THEN fallback
    ELSE LET keywords == extract_unique_keywords(terms, context_terms)
         IN IF keywords # <<>>
            THEN fallback \o <<" ", "(">> \o StrTitle(keywords[1]) \o <<")">>
            ELSE fallback

(***************************************************************************)
(* ConstraintShaper (shaper.py)                                            *)
(***************************************************************************)
\* is_existing_generic of _merge_orphans
is_existing_generic(key) ==
    \/ StrLower(key) \in {S_other, S_misc}
    \/ StartsWith(key, S_OtherParen)
    \/ StartsWith(key, S_miscParen)

\* result = call(...): the call is evaluated once and its value is bound to
\* the name the rest of the body reads
Bind(value, Rest(_)) == CHOOSE out \in { Rest(v) : v \in {value} } : TRUE

\* some value of the entries is a call that raised
AnyRaised(es) == \E i \in 1..Len(es) : IsRaised(es[i].v)
\* new_node.ca.items[k] = node.ca.items[k] for the keys of the loop, in order
copy_annotations(annotations, keys) ==
    LET annotated == SelectSeq(keys, LAMBDA k : DHas(annotations, k))
    IN [i \in 1..Len(annotated) |-> E(annotated[i], DGet(annotations, annotated[i]))]
\* sorted(node) of a list: str items in code point order; a list that holds
\* both a str and an int raises TypeError
sorted_raises(items) == \E i, j \in 1..Len(items) : IsPyStr(items[i]) # IsPyStr(items[j])
PySorted(items) ==
    IF \A i \in 1..Len(items) : ~IsPyStr(items[i]) THEN items ELSE Sorted(items)

\* the part of _merge_orphans that processes one level, after the recursion:
\* the entries of processed_node, or raised when sorted(..., key=str.casefold)
\* meets an item that is not a str.  The keys are strings (k.lower() has
\* raised otherwise).  No annotation is added for a new label: the
\* instruction template read for it is not an attribute of config, and the
\* handler around it drops the AttributeError.
merge_level(es, min_size, template) ==
    LET isSmall(e) == IsList(e.v) /\ (Len(e.v.items) < min_size \/ is_existing_generic(e.k))
        small_keys == DKeys(SelectSeq(es, isSmall))
        orphan_items == Flat([i \in 1..Len(small_keys) |-> DGet(es, small_keys[i]).items])
        ctx == SelectSeq(es, LAMBDA e : IsList(e.v) /\ ~isSmall(e))
        context_items == Flat([i \in 1..Len(ctx) |-> ctx[i].v.items])
        target_label_base == IF template # NoTemplate THEN template ELSE S_Other
        is_generic == StrLower(target_label_base) \in {S_other, S_misc}
        other_label == IF is_generic /\ \A i \in 1..Len(orphan_items) : IsPyStr(orphan_items[i])
                       THEN generate_contextual_label(orphan_items, context_items, target_label_base)
                       ELSE target_label_base
        withDest == IF DHas(es, other_label) THEN es ELSE Append(es, E(other_label, L(<<>>)))
        to_merge == SelectSeq(small_keys, LAMBDA key : key # other_label)
        popped == SelectSeq(withDest, LAMBDA e : e.k \notin SeqRange(to_merge))
        moved == Flat([i \in 1..Len(to_merge) |-> DGet(es, to_merge[i]).items])
        dest == DGet(withDest, other_label)
        pooled == Dedup(dest.items \o moved)
    IN IF small_keys = <<>> THEN [raised |-> FALSE, kv |-> es]
       ELSE IF IsList(dest)
            THEN IF \E i \in 1..Len(pooled) : ~IsPyStr(pooled[i])
                 THEN [raised |-> TRUE, kv |-> <<>>]
                 ELSE [raised |-> FALSE,
                       kv |-> DSet(popped, other_label, L(SortedCasefold(pooled)))]
            ELSE [raised |-> FALSE, kv |-> withDest]

\* ConstraintShaper._merge_orphans
RECURSIVE merge_orphans(_, _, _)
merge_orphans(node, min_size, template) ==
    IF IsList(node)
    THEN IF sorted_raises(node.items) THEN RaisedNode ELSE L(PySorted(node.items))
    ELSE IF ~IsDict(node) THEN node
    ELSE Bind([i \in 1..Len(node.kv) |->
                 E(node.kv[i].k, merge_orphans(node.kv[i].v, min_size, template))],
              LAMBDA processed :
         IF AnyRaised(processed) THEN RaisedNode
         ELSE IF \E i \in 1..Len(processed) : ~IsPyStr(processed[i].k) THEN RaisedNode
         ELSE Bind(merge_level(processed, min_size, template), LAMBDA level :
              IF level.raised THEN RaisedNode
              ELSE CM(level.kv, copy_annotations(node.ca, DKeys(node.kv)))))

\* the first child key that equals the parent key after lower().strip(),
\* or <<>> for None
match_key_of(key, es) ==
    LET k_norm == StrStrip(StrLower(key))
        hits == SelectSeq(es, LAMBDA e : StrStrip(StrLower(e.k)) = k_norm)
    IN IF hits = <<>> THEN <<>> ELSE hits[1].k

\* the value _prune_tautologies stores under key for the pruned child v; a
\* child with siblings is renamed inside v, whose annotations stay as they
\* are
prune_entry(key, v) ==
    IF ~IsDict(v) THEN v
    ELSE LET match_key == match_key_of(key, v.kv)
         IN IF match_key = <<>> THEN v      \* None, and the falsy key ''
            ELSE IF Len(v.kv) = 1 THEN DGet(v.kv, match_key)
            ELSE CM(DSet(DPop(v.kv, match_key), S_General \o key, DGet(v.kv, match_key)), v.ca)

\* the annotation _prune_tautologies leaves on key, as a list of at most one
\* entry: an only child that repeats the key brings its own annotation, a
\* renamed child brings none ('continue' comes before the copy), any other
\* value keeps the annotation of the key
prune_annotation(annotations, key, v) ==
    LET match_key == IF IsDict(v) THEN match_key_of(key, v.kv) ELSE <<>>
    IN IF match_key # <<>>
       THEN IF Len(v.kv) = 1 /\ DHas(v.ca, match_key)
            THEN <<E(key, DGet(v.ca, match_key))>>
            ELSE <<>>
       ELSE copy_annotations(annotations, <<key>>)

\* ConstraintShaper._prune_tautologies (the keys are strings: _merge_orphans
\* has raised otherwise)
RECURSIVE prune_tautologies(_)
prune_tautologies(node) ==
    IF ~IsDict(node) THEN node
    ELSE Bind([i \in 1..Len(node.kv) |->
                 E(node.kv[i].k, prune_tautologies(node.kv[i].v))],
              LAMBDA pruned :
         CM([i \in 1..Len(pruned) |-> E(pruned[i].k, prune_entry(pruned[i].k, pruned[i].v))],
            Flat([i \in 1..Len(pruned) |->
                    prune_annotation(node.ca, pruned[i].k, pruned[i].v)])))

\* ConstraintShaper._flatten_singles
RECURSIVE flatten_singles(_, _)
flatten_singles(node, is_root) ==
    IF ~IsDict(node) THEN node
    ELSE Bind(CM([i \in 1..Len(node.kv) |->
                    E(node.kv[i].k, flatten_singles(node.kv[i].v, FALSE))],
                 copy_annotations(node.ca, DKeys(node.kv))),
              LAMBDA new_node :
         IF Len(new_node.kv) # 1 THEN new_node
         ELSE LET key == new_node.kv[1].k
                  val == new_node.kv[1].v
              IN IF is_root THEN new_node
                 ELSE IF IsList(val) /\ key \notin {S_misc, S_Other, S_miscCategory1}
                      THEN new_node
                 ELSE IF IsDict(val) THEN new_node
                 ELSE IF ~IsList(val) THEN val
                 ELSE IF StrLower(key) \in {S_misc, S_other} THEN val
                 ELSE new_node)

\* the collision handling of _normalize_casing, entry by entry; two
\* mappings under one title-cased key are joined by existing.update(norm_v)
RECURSIVE casing_fold(_, _)
casing_fold(es, acc) ==
    IF es = <<>> THEN acc
    ELSE LET title_k == Head(es).k
             norm_v == Head(es).v
             existing == DGet(acc, title_k)
             merged ==
                IF ~DHas(acc, title_k) THEN Append(acc, E(title_k, norm_v))
                ELSE IF IsList(existing) /\ IsList(norm_v)
                     THEN DSet(acc, title_k, L(Sorted(Dedup(existing.items \o norm_v.items))))
                ELSE IF IsDict(existing) /\ IsDict(norm_v)
                     THEN DSet(acc, title_k, CM(DUpdate(existing.kv, norm_v.kv), existing.ca))
                ELSE DSet(acc, title_k, norm_v)
         IN casing_fold(Tail(es), merged)

\* new_node.ca.items[title_k] = node.ca.items[k], key by key
RECURSIVE casing_annotations(_, _, _)
casing_annotations(annotations, keys, acc) ==
    IF keys = <<>> THEN acc
    ELSE casing_annotations(annotations, Tail(keys),
                            IF DHas(annotations, Head(keys))
                            THEN DSet(acc, StrTitle(Head(keys)), DGet(annotations, Head(keys)))
                            ELSE acc)

\* ConstraintShaper._normalize_casing; k.title() raises AttributeError for a
\* key that is not a str
RECURSIVE normalize_casing(_)
normalize_casing(node) ==
    IF IsList(node)
    THEN L(Sorted(Dedup([i \in 1..Len(node.items) |-> StrLower(PyStr(node.items[i]))])))
    ELSE IF ~IsDict(node) THEN node
    ELSE IF \E i \in 1..Len(node.kv) : ~IsPyStr(node.kv[i].k) THEN RaisedNode
    ELSE Bind([i \in 1..Len(node.kv) |->
                 E(StrTitle(node.kv[i].k), normalize_casing(node.kv[i].v))],
              LAMBDA normalized :
         IF AnyRaised(normalized) THEN RaisedNode
         ELSE CM(casing_fold(normalized, <<>>),
                 casing_annotations(node.ca, DKeys(node.kv), <<>>)))

\* ConstraintShaper.shape
shape(tree, min_leaf_size, do_flatten, preserve_roots, template) ==
    Bind(merge_orphans(tree, min_leaf_size, template), LAMBDA merged :
    IF IsRaised(merged) THEN RaisedNode
    ELSE Bind(prune_tautologies(merged), LAMBDA pruned :
         normalize_casing(
            IF ~do_flatten THEN pruned
            ELSE IF preserve_roots /\ IsDict(pruned) /\ Len(pruned.kv) = 1
                 THEN CM(<<E(pruned.kv[1].k, flatten_singles(pruned.kv[1].v, FALSE))>>,
                         pruned.ca)
                 ELSE flatten_singles(pruned, TRUE))))

(***************************************************************************)
(* TraversalBudget (smart.py)                                              *)
(***************************************************************************)
NoLimit == -1    \* stands for limit = None

\* TraversalBudget.__init__
NewBudget(lim) == [limit |-> lim, current |-> 0, exhausted |-> FALSE]

\* a plausible slip: the visit that reaches the limit is refused
consume_offbyone(b, amount) ==
    IF b.limit = NoLimit THEN [b |-> b, ret |-> TRUE]
    ELSE IF b.exhausted THEN [b |-> b, ret |-> FALSE]
    ELSE LET cur == b.current + amount
         IN IF cur >= b.limit
            THEN [b |-> [b EXCEPT !.current = cur, !.exhausted = TRUE], ret |-> FALSE]
            ELSE [b |-> [b EXCEPT !.current = cur], ret |-> TRUE]

\* TraversalBudget.consume: the new budget and the returned boolean
consume(b, amount) ==
    IF b.limit = NoLimit THEN [b |-> b, ret |-> TRUE]
    ELSE IF b.exhausted THEN [b |-> b, ret |-> FALSE]
    ELSE LET cur == b.current + amount
         IN IF cur > b.limit
            THEN [b |-> [b EXCEPT !.current = cur, !.exhausted = TRUE], ret |-> FALSE]
            ELSE IF cur = b.limit
            THEN [b |-> [b EXCEPT !.current = cur, !.exhausted = TRUE], ret |-> TRUE]
            ELSE [b |-> [b EXCEPT !.current = cur], ret |-> TRUE]

\* TraversalBudget.is_exhausted
is_exhausted(b) == IF b.limit = NoLimit THEN FALSE ELSE b.exhausted

(***************************************************************************)
(* Pruner (smart.py)                                                       *)
(***************************************************************************)
\* get_synset_from_wnid found nothing
NoSynset == [exists |-> FALSE, min_depth |-> 0, n_hyponyms |-> 0,
             wnid |-> <<>>, lemmas |-> {}]

\* lemma.replace('_', ' ')
UnderscoreToSpace(s) == [i \in 1..Len(s) |-> IF s[i] = "_" THEN " " ELSE s[i]]

\* is_synset_significant
is_synset_significant(synset, config) ==
    IF ~synset.exists \/ ~config.enabled THEN FALSE
    ELSE IF synset.min_depth <= config.min_depth THEN TRUE
    ELSE IF synset.n_hyponyms >= config.min_hyponyms THEN TRUE
    ELSE FALSE

\* a variant that asks for significance before the child count
should_prune_node_significance_first(synset, child_count, is_root, config) ==
    IF ~config.enabled THEN FALSE
    ELSE IF is_root THEN FALSE
    ELSE IF /\ config.skip_nodes # {}
            /\ synset.exists
            /\ \/ synset.wnid \in config.skip_nodes
               \/ \E lemma \in synset.lemmas :
                     \/ lemma \in config.skip_nodes
                     \/ UnderscoreToSpace(lemma) \in config.skip_nodes
         THEN TRUE
    ELSE IF is_synset_significant(synset, config) THEN FALSE
    ELSE TRUE

\* should_prune_node
should_prune_node(synset, child_count, is_root, config) ==
    IF ~config.enabled THEN FALSE
    ELSE IF is_root THEN FALSE
    ELSE IF /\ config.skip_nodes # {}
            /\ synset.exists
            /\ \/ synset.wnid \in config.skip_nodes
               \/ \E lemma \in synset.lemmas :
                     \/ lemma \in config.skip_nodes
                     \/ UnderscoreToSpace(lemma) \in config.skip_nodes
         THEN TRUE
    ELSE IF child_count <= 1 THEN TRUE
    ELSE IF is_synset_significant(synset, config) THEN FALSE
    ELSE TRUE

\* the new SmartConfig of get_child_config: enabled and category_overrides
\* are the parent's, skip_nodes is read under the key SKIP_NODES,
\* preview_limit is not passed and takes the constructor's default None,
\* every other field f is override.get(f, self.f)
apply_override(config, override) ==
    [f \in DOMAIN config |->
        CASE f = "enabled" -> config.enabled
          [] f = "category_overrides" -> config.category_overrides
          [] f = "preview_limit" -> NoLimit
          [] f = "skip_nodes" -> IF "SKIP_NODES" \in DOMAIN override
                                 THEN override["SKIP_NODES"] ELSE config.skip_nodes
          [] OTHER -> IF f \in DOMAIN override THEN override[f] ELSE config[f]]

\* the override get_child_config selects: the entry under the id when it is
\* truthy, else the entry under the name or under the lower-cased name;
\* EmptyMap when none is selected.  An absent id or name is the empty string.
select_override(overrides, node_name, node_wnid) ==
    LET by_wnid == IF node_wnid # <<>> /\ node_wnid \in DOMAIN overrides
                   THEN overrides[node_wnid] ELSE EmptyMap
    IN IF DOMAIN by_wnid # {} THEN by_wnid
       ELSE IF node_name = <<>> THEN EmptyMap
       ELSE IF node_name \in DOMAIN overrides THEN overrides[node_name]
       ELSE IF StrLower(node_name) \in DOMAIN overrides THEN overrides[StrLower(node_name)]
       ELSE EmptyMap

\* SmartConfig.get_child_config: self when the config is disabled, has no
\* overrides or none is selected (an empty override is falsy)
get_child_config(config, node_name, node_wnid) ==
    IF ~config.enabled \/ DOMAIN config.category_overrides = {} THEN config
    ELSE LET override == select_override(config.category_overrides, node_name, node_wnid)
         IN IF DOMAIN override = {} THEN config
            ELSE apply_override(config, override)

(***************************************************************************)
(* Semantic cleaning and arrangement as the traversal sees them (smart.py) *)
(***************************************************************************)
\* apply_semantic_cleaning: the list is returned unchanged when cleaning is
\* off, the list is empty or the embedding dependencies are missing
apply_semantic_cleaning(items, config, arranger) ==
    CASE ~config.enabled \/ ~config.semantic_cleanup \/ items = <<>> -> items
      [] arranger = "nodeps" -> items

S_GroupA == <<"G","r","o","u","p"," ","A">>

\* arrange_hierarchy with the embedding dependencies installed.  "flat": the
\* list is within max_leaf_size, or no cluster is accepted, and sorted(terms)
\* is returned.  "tree": the clusterer puts the first two sorted terms of a
\* longer list in one accepted group, named by the fallback name, and the
\* rest is left over under the fallback label; one group without leftovers
\* is returned as sorted(terms).
arrange_hierarchy(terms, arranger) ==
    LET sorted_terms == Sorted(terms)
    IN IF arranger = "flat" \/ Len(terms) < 3 THEN L(sorted_terms)
       ELSE D(<<E(S_Group, L(SubSeq(sorted_terms, 1, 2))),
                E(S_Other, L(SubSeq(sorted_terms, 3, Len(sorted_terms))))>>)

\* apply_semantic_arrangement(..., return_metadata=True): the short-circuit
\* triple (the metadata only feeds comments), or the result of
\* arrange_hierarchy itself (raw).  "nodeps": check_dependencies() fails
\* and the call short-circuits.  "groups": the arranger of
\* test_dataloss_on_arranged_orphans, which puts pooled orphans in one named
\* group and returns any other list flat, both as triples.
apply_semantic_arrangement(items, config, arranger, site) ==
    IF ~config.enabled \/ ~config.semantic_arrangement \/ items = <<>>
    THEN [structure |-> D(<<>>), leftovers |-> items, raw |-> FALSE]
    ELSE IF arranger = "nodeps"
    THEN [structure |-> D(<<>>), leftovers |-> items, raw |-> FALSE]
    ELSE IF arranger \in {"flat", "tree"}
    THEN [structure |-> arrange_hierarchy(items, arranger), leftovers |-> <<>>, raw |-> TRUE]
    ELSE IF site = "orphans"
    THEN [structure |-> D(<<E(S_GroupA, L(items))>>), leftovers |-> <<>>, raw |-> FALSE]
    ELSE [structure |-> L(items), leftovers |-> <<>>, raw |-> FALSE]

\* a, b, c = apply_semantic_arrangement(...): a triple is taken apart; a list
\* or a mapping is iterated, so the names are bound to its items or its keys
\* when there are exactly three, and ValueError is raised otherwise
unpack_arrangement(arr) ==
    IF ~arr.raw
    THEN [raised |-> FALSE, structure |-> arr.structure, leftovers |-> L(arr.leftovers)]
    ELSE LET values == IF IsDict(arr.structure) THEN DKeys(arr.structure.kv)
                       ELSE arr.structure.items
         IN IF Len(values) # 3
            THEN [raised |-> TRUE, structure |-> PyNone, leftovers |-> PyNone]
            ELSE [raised |-> FALSE, structure |-> Str(values[1]), leftovers |-> Str(values[2])]

(***************************************************************************)
(* Tencent traversal engine (datasets/tencent.py)                          *)
(***************************************************************************)
SkipSafetyBound == 1000

\* the 'name' column of the source rows, by index: one-letter names, so that
\* no term holds a token of the label vectorizer
RawNames == << <<"R">>, <<"f">>, <<"V">>, <<" ", "a">>, <<"B", ",", " ", "z">>,
               <<"c">>, <<"D">> >>
Digits == <<"0", "1", "2", "3", "4", "5", "6">>

\* categories[idx]['name'].split(',')[0].strip()
node_name(idx) == StrStrip(BeforeComma(RawNames[idx + 1]))
\* categories[idx]['id']
node_wnid(idx) == <<"n", Digits[idx + 1]>>

\* parse_hierarchy_file reads the rows in file order: src.parent holds the
\* parent of the first row of every index, src.dup the later rows that repeat
\* an index, as [idx, parent] records.  Every row appends its index to the
\* children of its parent (or to the roots); categories[idx] keeps the last
\* row of the index.
dup_children_of(src, parent_idx) ==
    LET rows == SelectSeq(src.dup, LAMBDA row : row.parent = parent_idx)
    IN [i \in 1..Len(rows) |-> rows[i].idx]

\* children_map.get(idx, []) : the rows whose parent is idx, in file order
children_of(src, idx) ==
    SelectSeq([i \in 1..Len(src.parent) |-> i - 1], LAMBDA c : src.parent[c + 1] = idx)
        \o dup_children_of(src, idx)
\* roots
roots_of(src) ==
    SelectSeq([i \in 1..Len(src.parent) |-> i - 1], LAMBDA c : src.parent[c + 1] = -1)
        \o dup_children_of(src, -1)
\* categories[idx]['parent']
parent_of(src, idx) ==
    LET rows == SelectSeq(src.dup, LAMBDA row : row.idx = idx)
    IN IF rows = <<>> THEN src.parent[idx + 1] ELSE rows[Len(rows)].parent

\* collect_leaves
RECURSIVE collect_leaves(_, _)
collect_leaves(src, idx) ==
    LET children == children_of(src, idx)
    IN IF children = <<>> THEN <<node_name(idx)>>
       ELSE Flat([i \in 1..Len(children) |-> collect_leaves(src, children[i])])

\* the rows collect_leaves(idx) is called for: idx and its descendants
RECURSIVE descendants(_, _, _)
descendants(src, frontier, seen) ==
    IF frontier \subseteq seen THEN seen
    ELSE descendants(src,
                     UNION { SeqRange(children_of(src, n)) : n \in frontier \ seen },
                     seen \cup frontier)
\* a row that is its own descendant
on_cycle(src, idx) == idx \in descendants(src, SeqRange(children_of(src, idx)), {})
\* collect_leaves keeps no visited set and takes nothing from the budget:
\* when a row on a cycle is among the rows it is called for, the recursion
\* has no end and the interpreter raises RecursionError
collect_leaves_outcome(src, idx) ==
    IF \E n \in descendants(src, {idx}, {}) : on_cycle(src, n)
    THEN [raised |-> TRUE, leaves |-> <<>>]
    ELSE [raised |-> FALSE, leaves |-> collect_leaves(src, idx)]

\* merge_nodes
RECURSIVE merge_nodes(_, _)
merge_nodes(existing, new_val) ==
    IF IsList(existing) /\ IsList(new_val)
    THEN L(SortedCasefold(Dedup(existing.items \o new_val.items)))
    ELSE IF IsDict(existing) /\ IsDict(new_val)
    THEN LET RECURSIVE into(_, _)
             into(es, other) ==
                IF other = <<>> THEN es
                ELSE LET e == Head(other)
                     IN into(IF DHas(es, e.k)
                             THEN DSet(es, e.k, merge_nodes(DGet(es, e.k), e.v))
                             ELSE Append(es, e),
                             Tail(other))
         IN D(into(existing.kv, new_val.kv))
    ELSE existing

sorted_in_source_order(idxs) == idxs
\* sorted(indices, key=name.casefold), a stable sort
RECURSIVE sorted_by_name(_)
sorted_by_name(idxs) ==
    IF idxs = <<>> THEN <<>>
    ELSE LET RECURSIVE ins(_, _)
             ins(c, ys) ==
                IF ys = <<>> THEN <<c>>
                ELSE IF StrLess(StrLower(node_name(c)), StrLower(node_name(Head(ys))))
                     THEN <<c>> \o ys
                     ELSE <<Head(ys)>> \o ins(c, Tail(ys))
         IN ins(idxs[Len(idxs)], sorted_by_name(SubSeq(idxs, 1, Len(idxs) - 1)))

\* c_wnid in config.skip_nodes or c_name in config.skip_nodes
in_skip_set(config, c_idx) ==
    node_wnid(c_idx) \in config.skip_nodes \/ node_name(c_idx) \in config.skip_nodes

\* one iteration of the structural skipping loop of build_commented: the
\* child at the head of the queue is replaced by its own children when it is
\* in the skip set and fewer than SkipSafetyBound children were replaced,
\* and is an effective child otherwise
skip_step(src, config, s) ==
    LET c_idx == Head(s.queue)
        should_skip ==
            /\ config.enabled
            /\ config.skip_nodes # {}
            /\ in_skip_set(config, c_idx)
    IN IF should_skip /\ s.processed_skips < SkipSafetyBound
       THEN [s EXCEPT !.queue = Tail(@) \o children_of(src, c_idx),
                      !.processed_skips = @ + 1]
       ELSE [s EXCEPT !.queue = Tail(@), !.effective = Append(@, c_idx)]

\* while queue: at most n iterations of the loop, the first half and then
\* the rest
RECURSIVE skip_loop(_, _, _, _)
skip_loop(src, config, s, n) ==
    IF s.queue = <<>> \/ n = 0 THEN s
    ELSE IF n = 1 THEN skip_step(src, config, s)
    ELSE Bind(skip_loop(src, config, s, n \div 2),
              LAMBDA half : skip_loop(src, config, half, n - (n \div 2)))

\* the structural skipping loop of build_commented: children in the skip set
\* are replaced by their own children, breadth first; the effective children
\* and the number of promotions at the end of the loop.  Every iteration
\* takes one child off the queue and only a promotion adds any, so the loop
\* ends within the iterations given to skip_loop.
effective_children(src, config, queue, processed_skips, acc) ==
    LET rows == Len(src.parent) + Len(src.dup)
        done == skip_loop(src, config,
                          [queue |-> queue, processed_skips |-> processed_skips,
                           effective |-> acc],
                          Len(queue) + (SkipSafetyBound - processed_skips) * rows)
    IN [effective |-> done.effective, processed_skips |-> done.processed_skips]

\* the orphan label of a Category: the template, formatted with the name
orphan_label_of(config, name) ==
    IF HasBraces(config.orphans_label_template)
    THEN StrFormat(config.orphans_label_template, name)
    ELSE config.orphans_label_template

\* the names of leaves that differ from the node's own name, deduplicated
\* and sorted by casefold
filter_self(leaves, name) ==
    SortedCasefold(Dedup(SelectSeq(leaves, LAMBDA l : StrLower(l) # StrLower(name))))

ListOrNone(xs) == IF xs = <<>> THEN PyNone ELSE L(xs)

\* what build_commented returns for a kept Category that has sub-categories:
\* the Category, and no orphans
kept_category_result_dup(cm, orphan_leaves) == [val |-> D(cm), orphans |-> orphan_leaves, raised |-> FALSE]
kept_category_result(cm, orphan_leaves) == [val |-> D(cm), orphans |-> <<>>, raised |-> FALSE]

\* the stats.log_event of a refused visit
refused_visit_events(b, events) ==
    IF is_exhausted(b) THEN Append(events, "limit_reached") ELSE events

\* an exception leaves the function: nothing is returned
Raised == [val |-> PyNone, orphans |-> <<>>, raised |-> TRUE]

\* the branch of build_commented that flattens the node into a list
flatten_branch(src, arranger, idx, config) ==
    LET name == node_name(idx)
        collected == collect_leaves_outcome(src, idx)
        filtered_leaves ==
            apply_semantic_cleaning(filter_self(collected.leaves, name), config, arranger)
        arr == unpack_arrangement(
                   apply_semantic_arrangement(filtered_leaves, config, arranger, "flatten"))
    IN IF collected.raised THEN Raised
       ELSE IF config.enabled /\ Len(filtered_leaves) < config.min_leaf_size /\ config.merge_orphans
       THEN [val |-> PyNone, orphans |-> filtered_leaves, raised |-> FALSE]
       ELSE IF config.enabled /\ config.semantic_arrangement
       THEN IF arr.raised THEN Raised
            ELSE IF IsDict(arr.structure)
            THEN [val |-> arr.structure, orphans |-> <<>>, raised |-> FALSE]
            ELSE [val |-> OrNone(arr.structure), orphans |-> <<>>, raised |-> FALSE]
       ELSE [val |-> ListOrNone(filtered_leaves), orphans |-> <<>>, raised |-> FALSE]

\* the end of build_commented for a kept Category: the bubbled-up orphans
\* are pooled under the orphan label; a Category that kept no child
\* flattens itself
category_branch(arranger, name, config, cm0, orphans0, valid_items_added) ==
    LET pooled == apply_semantic_cleaning(SortedCasefold(Dedup(orphans0)), config, arranger)
        arrange == config.enabled /\ config.semantic_arrangement
        arr == unpack_arrangement(
                   apply_semantic_arrangement(pooled, config, arranger, "orphans"))
        RECURSIVE merge_groups(_, _)
        merge_groups(cm, groups) ==
            IF groups = <<>> THEN cm
            ELSE LET g == Head(groups)
                 IN merge_groups(IF DHas(cm, g.k)
                                 THEN DSet(cm, g.k, merge_nodes(DGet(cm, g.k), g.v))
                                 ELSE Append(cm, g),
                                 Tail(groups))
        cm1 == IF orphans0 # <<>> /\ arrange /\ IsDict(arr.structure)
               THEN merge_groups(cm0, arr.structure.kv) ELSE cm0
        \* orphan_leaves after the arrangement: a list, or the str the
        \* unpacking bound to arranged_orphans
        orphan_value ==
            IF orphans0 = <<>> THEN L(<<>>)
            ELSE IF ~arrange THEN L(pooled)
            ELSE IF IsDict(arr.structure) THEN L(<<>>)
            ELSE arr.structure
        orphan_leaves == Elements(orphan_value)
        cm == IF orphans0 # <<>>
              THEN DSet(cm1, orphan_label_of(config, name), orphan_value)
              ELSE cm1
        \* valid_items_added == 0, smart mode
        filtered_leaves == apply_semantic_cleaning(filter_self(orphan_leaves, name), config, arranger)
        regrow == unpack_arrangement(
                      apply_semantic_arrangement(filtered_leaves, config, arranger, "regrow"))
        mini_groups == [i \in 1..Len(regrow.structure.kv) |->
                          E(regrow.structure.kv[i].k,
                            L(SortedCasefold(regrow.structure.kv[i].v.items)))]
        mini_tree == IF Truthy(regrow.leftovers)
                     THEN DSet(mini_groups, orphan_label_of(config, name),
                               L(SortedCasefold(regrow.leftovers.items)))
                     ELSE mini_groups
    IN IF orphans0 # <<>> /\ arrange /\ arr.raised THEN Raised
       ELSE IF valid_items_added # 0 THEN kept_category_result(cm, orphan_leaves)
       ELSE IF config.enabled /\ Len(filtered_leaves) < config.min_leaf_size
       THEN [val |-> PyNone, orphans |-> filtered_leaves, raised |-> FALSE]
       ELSE IF arrange
       THEN IF regrow.raised THEN Raised
            ELSE IF IsDict(regrow.structure)
            THEN [val |-> D(mini_tree), orphans |-> <<>>, raised |-> FALSE]
            ELSE [val |-> OrNone(regrow.leftovers), orphans |-> <<>>, raised |-> FALSE]
       ELSE [val |-> ListOrNone(filtered_leaves), orphans |-> <<>>, raised |-> FALSE]

\* build_commented (smart mode): the value, the orphans, and the budget and
\* event log after the call; st.visits lists the nodes in the order in which
\* build_commented was entered for them, st.expansions the skipping loops
\* that ran, st.raised tells that an exception is on its way to the caller
RECURSIVE build_commented(_, _, _, _, _)
RECURSIVE build_children(_, _, _, _, _)
build_commented(src, arranger, idx, config, st) ==
    LET entered == [st EXCEPT !.visits = Append(@, idx)]
        c == consume(st.budget, 1)
        children == children_of(src, idx)
        should_flatten ==
            should_prune_node(src.synset[idx + 1], Len(children), parent_of(src, idx) = -1, config)
    IN IF ~c.ret
       THEN [val |-> PyNone, orphans |-> <<>>,
             st |-> [entered EXCEPT !.budget = c.b,
                                    !.events = refused_visit_events(c.b, st.events)]]
       ELSE LET st1 == [entered EXCEPT !.budget = c.b]
            IN IF children = <<>>
               THEN [val |-> PyNone, orphans |-> <<node_name(idx)>>, st |-> st1]
               ELSE IF should_flatten
               THEN Bind(flatten_branch(src, arranger, idx, config),
                         LAMBDA r : [val |-> r.val, orphans |-> r.orphans,
                                     st |-> [st1 EXCEPT !.raised = r.raised]])
               ELSE Bind(effective_children(src, config, children, 0, <<>>),
                         LAMBDA loop :
                    Bind(build_children(src, arranger, sorted_by_name(loop.effective), config,
                                [cm |-> <<>>, orphan_leaves |-> <<>>,
                                 valid_items_added |-> 0, visited |-> <<>>,
                                 st |-> [st1 EXCEPT !.expansions =
                                            Append(@, [parent |-> idx,
                                                       effective |-> loop.effective,
                                                       processed_skips |-> loop.processed_skips])]]),
                            LAMBDA acc :
                              IF acc.st.raised
                              THEN [val |-> PyNone, orphans |-> <<>>, st |-> acc.st]
                              ELSE
                              Bind(category_branch(arranger, node_name(idx), config, acc.cm,
                                                   acc.orphan_leaves, acc.valid_items_added),
                                   LAMBDA r : [val |-> r.val, orphans |-> r.orphans,
                                               st |-> [acc.st EXCEPT !.raised = r.raised]])))

\* the loop of build_commented over the sorted children
build_children(src, arranger, kids, config, acc) ==
    IF kids = <<>> \/ acc.st.raised THEN acc
    ELSE LET child_idx == Head(kids)
             child_name == node_name(child_idx)
             child_config == get_child_config(config, child_name, node_wnid(child_idx))
             collide == DHas(acc.cm, child_name)
         IN Bind(build_commented(src, arranger, child_idx, child_config, acc.st),
                 LAMBDA r :
                   Bind([cm |-> IF r.val = PyNone THEN acc.cm
                                ELSE IF collide
                                THEN DSet(acc.cm, child_name,
                                          merge_nodes(DGet(acc.cm, child_name), r.val))
                                ELSE Append(acc.cm, E(child_name, r.val)),
                         orphan_leaves |-> acc.orphan_leaves \o r.orphans,
                         valid_items_added |-> IF r.val # PyNone /\ ~collide
                                               THEN acc.valid_items_added + 1
                                               ELSE acc.valid_items_added,
                         visited |-> Append(acc.visited, child_idx),
                         st |-> r.st],
                        LAMBDA next_acc :
                          build_children(src, arranger, Tail(kids), config, next_acc)))

\* the root loop of generate_tencent_hierarchy
RECURSIVE build_roots(_, _, _, _, _)
build_roots(src, arranger, roots, config, acc) ==
    IF roots = <<>> \/ acc.st.raised THEN acc
    ELSE LET root_idx == Head(roots)
             root_name == node_name(root_idx)
             final_map_after(r) ==
                IF IsDict(r.val)
                THEN DSet(acc.final_map, root_name,
                          IF r.orphans # <<>>
                          THEN D(DSet(r.val.kv, S_misc, L(SortedCasefold(Dedup(r.orphans)))))
                          ELSE r.val)
                ELSE IF IsList(r.val)
                THEN DSet(acc.final_map, root_name,
                          L(SortedCasefold(Dedup(r.val.items \o r.orphans))))
                ELSE IF r.val = PyNone /\ r.orphans # <<>>
                THEN DSet(acc.final_map, root_name, L(SortedCasefold(Dedup(r.orphans))))
                ELSE acc.final_map
         IN Bind(build_commented(src, arranger, root_idx, config, acc.st),
                 LAMBDA r :
                   Bind([final_map |-> final_map_after(r), st |-> r.st],
                        LAMBDA next_acc :
                          build_roots(src, arranger, Tail(roots), config, next_acc)))

\* generate_tencent_hierarchy(smart=True, ...): the hierarchy, and the budget
\* and the event log at the end of the run; when an exception reaches the
\* caller (st.raised) no hierarchy is returned
generate_tencent_hierarchy(src, arranger, config) ==
    Bind(build_roots(src, arranger, sorted_by_name(roots_of(src)), config,
                     [final_map |-> <<>>,
                      st |-> [budget |-> NewBudget(config.preview_limit), events |-> <<>>,
                             visits |-> <<>>, expansions |-> <<>>, raised |-> FALSE]]),
         LAMBDA built :
           [hierarchy |-> IF built.st.raised THEN PyNone
                          ELSE IF config.enabled /\ (config.min_leaf_size > 0 \/ config.merge_orphans)
                          THEN shape(D(built.final_map), config.min_leaf_size, TRUE, TRUE, NoTemplate)
                          ELSE D(built.final_map),
            st |-> built.st])

(***************************************************************************)
(* Embedding cache (arranger.py)                                           *)
(***************************************************************************)
\* "|".join(xs)
RECURSIVE JoinBar(_)
JoinBar(xs) ==
    IF xs = <<>> THEN <<>>
    ELSE IF Len(xs) = 1 THEN xs[1]
    ELSE xs[1] \o <<"|">> \o JoinBar(Tail(xs))

\* key_hash: the digest of the joined sorted terms, modelled by the joined
\* string itself (equal keys exactly for equal joined strings)
key_hash(terms) == JoinBar(Sorted(terms))

\* the encoder's vector for one term
VectorOf(term) == <<"vec", term>>
\* compute_list_embeddings: model.encode(terms), one row per term
compute_list_embeddings(terms) == [i \in 1..Len(terms) |-> VectorOf(terms[i])]

\* dict[key] = value
MapSet(map, key, value) ==
    [k \in DOMAIN map \cup {key} |-> IF k = key THEN value ELSE map[k]]

\* a variant: INSERT OR REPLACE, the last writer's vector stays
insert_or_replace(store, key, value) == MapSet(store, key, value)

\* INSERT OR IGNORE INTO embeddings (hash, vector): a row whose hash is
\* already present is left as it is
insert_or_ignore(store, key, value) ==
    IF key \in DOMAIN store THEN store ELSE MapSet(store, key, value)

\* a variant that leaves the embeddings table alone after computing
get_cached_embeddings_memory_only(mem, store, terms, read_ok, write_ok) ==
    LET key == key_hash(terms)
        computed == compute_list_embeddings(terms)
    IN IF key \in DOMAIN mem
       THEN [ret |-> mem[key], mem |-> mem, store |-> store, encoded |-> FALSE,
             tier |-> "memory", io_failed |-> FALSE]
       ELSE IF read_ok /\ key \in DOMAIN store
       THEN [ret |-> store[key], mem |-> MapSet(mem, key, store[key]),
             store |-> store, encoded |-> FALSE,
             tier |-> "store", io_failed |-> FALSE]
       ELSE [ret |-> computed, mem |-> MapSet(mem, key, computed),
             store |-> store, encoded |-> TRUE,
             tier |-> "encoder", io_failed |-> ~read_ok \/ ~write_ok]

\* get_cached_embeddings: the returned matrix, the two tiers after the call,
\* whether the encoder ran, the tier that answered, and whether a statement
\* on the SQLite file raised (the exception is caught and logged).
\* read_ok / write_ok: whether the SELECT and the INSERT OR IGNORE succeed.
get_cached_embeddings(mem, store, terms, read_ok, write_ok) ==
    LET key == key_hash(terms)
        computed == compute_list_embeddings(terms)
    IN IF key \in DOMAIN mem
       THEN [ret |-> mem[key], mem |-> mem, store |-> store, encoded |-> FALSE,
             tier |-> "memory", io_failed |-> FALSE]
       ELSE IF read_ok /\ key \in DOMAIN store
       THEN [ret |-> store[key], mem |-> MapSet(mem, key, store[key]),
             store |-> store, encoded |-> FALSE,
             tier |-> "store", io_failed |-> FALSE]
       ELSE [ret |-> computed, mem |-> MapSet(mem, key, computed),
             store |-> IF write_ok THEN insert_or_ignore(store, key, computed)
                       ELSE store,
             encoded |-> TRUE,
             tier |-> "encoder", io_failed |-> ~read_ok \/ ~write_ok]

(***************************************************************************)
(* Clustering passes (arranger.py).  Probabilities and thresholds are in   *)
(* hundredths.  A fit is what the clusterer leaves after fit(): one label  *)
(* and one membership probability per term, or an exception.  The namer is *)
(* what WordNet and the embeddings give the naming cascade: the base name  *)
(* of every cluster and which member is the medoid.                        *)
(***************************************************************************)
S_N == <<"N">>
Noise == -1

RECURSIVE Sum(_)
Sum(xs) == IF xs = <<>> THEN 0 ELSE Head(xs) + Sum(Tail(xs))

\* clusters: label -> indices, for the labels other than -1, as the dict's
\* keys in insertion order and the index list of one key
cluster_labels(labels) == Dedup(SelectSeq(labels, LAMBDA l : l # Noise))
cluster_indices(labels, label) ==
    SelectSeq([i \in 1..Len(labels) |-> i], LAMBDA i : labels[i] = label)

\* sorted(clusters.keys(), key=lambda l: len(clusters[l]), reverse=True):
\* larger clusters first, equal sizes in insertion order
RECURSIVE insert_by_size(_, _, _)
insert_by_size(label, sorted, labels) ==
    IF sorted = <<>> THEN <<label>>
    ELSE IF Len(cluster_indices(labels, label)) > Len(cluster_indices(labels, Head(sorted)))
    THEN <<label>> \o sorted
    ELSE <<Head(sorted)>> \o insert_by_size(label, Tail(sorted), labels)
RECURSIVE sort_by_size(_, _)
sort_by_size(keys, labels) ==
    IF keys = <<>> THEN <<>>
    ELSE insert_by_size(keys[Len(keys)],
                        sort_by_size(SubSeq(keys, 1, Len(keys) - 1), labels), labels)
sorted_labels(labels) == sort_by_size(cluster_labels(labels), labels)

\* a variant that accepts a cluster only above the threshold
cluster_accepted_strict(probs, threshold) == Sum(probs) > threshold * Len(probs)

\* not (mean_prob < threshold), mean_prob = sum(probs) / len(probs)
cluster_accepted(probs, threshold) == Sum(probs) >= threshold * Len(probs)

\* meta.get("medoid_term", ""): the member nearest the centroid, absent when
\* the distance computation raised
medoid_term_of(cluster_items, namer) ==
    CASE namer.medoid = "first" -> cluster_items[1]
      [] namer.medoid = "last" -> cluster_items[Len(cluster_items)]
      [] namer.medoid = "unset" -> <<>>

\* the hybrid name of a cluster whose base name is taken or is "Group": the
\* TF-IDF keyword, else the medoid term (the terms hold no parentheses and
\* no blanks inside, so the clean-up is strip() and the word count is one)
hybrid_name(base_name, taken, cluster_items, terms, namer) ==
    IF ~(base_name \in SeqRange(taken) \/ base_name = S_Group) THEN base_name
    ELSE LET other_terms_in_pass ==
                 SelectSeq(terms, LAMBDA t : t \notin SeqRange(cluster_items))
             keywords == IF base_name = S_Group
                         THEN extract_unique_keywords(cluster_items, other_terms_in_pass)
                         ELSE <<>>
             medoid_term == medoid_term_of(cluster_items, namer)
             suffix == IF keywords # <<>> THEN StrTitle(keywords[1])
                       ELSE IF medoid_term # <<>> /\ medoid_term # base_name
                       THEN StrStrip(medoid_term)
                       ELSE <<>>
         IN IF suffix # <<>> THEN base_name \o <<" ", "(">> \o suffix \o <<")">>
            ELSE base_name

unique_name_unchecked(original_name, taken, counter) == original_name
\* while name in named_groups: name = f"{original_name} {counter}"; counter += 1
RECURSIVE unique_name(_, _, _)
unique_name(original_name, taken, counter) ==
    LET name == IF counter = 1 THEN original_name
                ELSE original_name \o <<" ", Digits[counter + 1]>>
    IN IF name \in SeqRange(taken) THEN unique_name(original_name, taken, counter + 1)
       ELSE name

\* the loop over sorted_labels: the named groups, the indices used and the
\* diagnostic details after the labels in todo
RECURSIVE process_clusters(_, _, _, _, _, _)
process_clusters(todo, acc, terms, fit, threshold, namer) ==
    IF todo = <<>> THEN acc
    ELSE LET label == Head(todo)
             indices == cluster_indices(fit.labels, label)
             probs == [k \in 1..Len(indices) |-> fit.probabilities[indices[k]]]
             cluster_items == [k \in 1..Len(indices) |-> terms[indices[k]]]
             accepted == cluster_accepted(probs, threshold)
             detail == [label |-> label, size |-> Len(indices), accepted |-> accepted]
             taken == DKeys(acc.named_groups)
             name == unique_name(hybrid_name(namer.base, taken, cluster_items, terms, namer),
                                 taken, 1)
         IN Bind(IF accepted
                 THEN [named_groups |-> DSet(acc.named_groups, name, Sorted(cluster_items)),
                       used_indices |-> acc.used_indices \cup SeqRange(indices),
                       details |-> Append(acc.details, detail),
                       rejected |-> acc.rejected]
                 ELSE [acc EXCEPT !.details = Append(acc.details, detail),
                                  !.rejected = acc.rejected + 1],
                 LAMBDA next : process_clusters(Tail(todo), next, terms, fit, threshold, namer))

\* _arrange_single_pass: (groups, leftovers, stats); clustered tells whether
\* the labels of the fit were used
_arrange_single_pass(terms, fit, min_cluster_size, threshold, namer) ==
    IF Len(terms) < min_cluster_size + 1 \/ fit.raises
    THEN [groups |-> <<>>, leftovers |-> terms, clustered |-> FALSE,
          n_clusters_found |-> 0, n_clusters_rejected |-> 0, details |-> <<>>]
    ELSE LET done == process_clusters(sorted_labels(fit.labels),
                        [named_groups |-> <<>>, used_indices |-> {},
                         details |-> <<>>, rejected |-> 0],
                        terms, fit, threshold, namer)
             unused == SelectSeq([i \in 1..Len(terms) |-> i],
                                 LAMBDA i : i \notin done.used_indices)
             leftovers == [k \in 1..Len(unused) |-> terms[unused[k]]]
         IN [groups |-> done.named_groups, leftovers |-> Sorted(leftovers),
             clustered |-> TRUE,
             n_clusters_found |-> Len(cluster_labels(fit.labels)),
             n_clusters_rejected |-> done.rejected, details |-> done.details]

\* the fit of a layout on n rows: block k of the layout, when it fits in the
\* n rows, is cluster k - 1 with one probability for all its members; the
\* other rows are noise with probability 0
BlockAt(layout, i) ==
    { k \in 1..Len(layout.blocks) :
        LET from == layout.start + Sum([j \in 1..(k - 1) |-> layout.blocks[j].size])
        IN from <= i /\ i < from + layout.blocks[k].size }
FitOf(layout, n) ==
    LET whole == { k \in 1..Len(layout.blocks) :
                     layout.start + Sum([j \in 1..k |-> layout.blocks[j].size]) - 1 <= n }
        block(i) == IF BlockAt(layout, i) \cap whole = {} THEN 0
                    ELSE CHOOSE k \in BlockAt(layout, i) \cap whole : TRUE
    IN [raises |-> FALSE,
        labels |-> [i \in 1..n |-> IF block(i) = 0 THEN Noise ELSE block(i) - 1],
        probabilities |-> [i \in 1..n |-> IF block(i) = 0 THEN 0
                                          ELSE layout.blocks[block(i)].prob]]

RecoveryMinLeftovers == 20
RecoveryMinThreshold == 15

\* the merge of the recovery pass's groups into the primary pass's groups
RECURSIVE merge_groups(_, _)
merge_groups(final_groups, groups_2) ==
    IF groups_2 = <<>> THEN final_groups
    ELSE merge_groups(
            DSet(final_groups,
                 unique_name(Head(groups_2).k, DKeys(final_groups), 1),
                 Head(groups_2).v),
            Tail(groups_2))

\* normalize_term
normalize_term(term) == StrStrip(StrLower(term))

\* get_cached_embeddings(model, normalized): row i is the embedding of the
\* i-th normalized term; a row is known by the term it embeds
embeddings_of(terms) == [i \in 1..Len(terms) |-> [of |-> normalize_term(terms[i])]]

\* [i for i, t in enumerate(terms) if t in final_leftovers]
leftover_indices(terms, final_leftovers) ==
    SelectSeq([i \in 1..Len(terms) |-> i], LAMBDA i : terms[i] \in SeqRange(final_leftovers))

\* embeddings[leftover_indices]
rows_at(embeddings, indices) == [k \in 1..Len(indices) |-> embeddings[indices[k]]]

\* the result of a pass that did not run
NoPass == [groups |-> <<>>, leftovers |-> <<>>, clustered |-> FALSE,
           n_clusters_found |-> 0, n_clusters_rejected |-> 0, details |-> <<>>]

\* arrange_list: (groups, leftovers); recovered tells whether the recovery
\* pass ran, pass_1 and pass_2 are the two passes' own results (the stats
\* of return_stats) and recovery_embeddings is the matrix handed to the
\* recovery pass with pass_1's leftovers.  fit1 is the clusterer's fit in
\* the primary pass, layout2 gives its fit on the matrix of the recovery pass.
arrange_list(terms, fit1, layout2, min_cluster_size, threshold, namer) ==
    IF Len(terms) < 3 \/ ~namer.deps
    THEN [groups |-> <<>>, leftovers |-> terms, recovered |-> FALSE,
          pass_1 |-> NoPass, pass_2 |-> NoPass, recovery_embeddings |-> <<>>]
    ELSE Bind(_arrange_single_pass(terms, fit1, min_cluster_size, threshold, namer),
         LAMBDA pass_1 :
           IF Len(pass_1.leftovers) > RecoveryMinLeftovers /\ min_cluster_size > 2
           THEN LET leftover_embeddings ==
                        rows_at(embeddings_of(terms), leftover_indices(terms, pass_1.leftovers))
                IN Bind(_arrange_single_pass(pass_1.leftovers,
                                          FitOf(layout2, Len(leftover_embeddings)), 2,
                                          IF (threshold * 3) \div 2 > RecoveryMinThreshold
                                          THEN (threshold * 3) \div 2
                                          ELSE RecoveryMinThreshold,
                                          namer),
                LAMBDA pass_2 :
                  [groups |-> merge_groups(pass_1.groups, pass_2.groups),
                   leftovers |-> pass_2.leftovers, recovered |-> TRUE,
                   pass_1 |-> pass_1, pass_2 |-> pass_2,
                   recovery_embeddings |-> leftover_embeddings])
           ELSE [groups |-> pass_1.groups, leftovers |-> pass_1.leftovers,
                 recovered |-> FALSE, pass_1 |-> pass_1, pass_2 |-> NoPass,
                 recovery_embeddings |-> <<>>])

(***************************************************************************)
(* UMAP cache (arranger.py).  A matrix is its number of rows, its bytes and *)
(* the reduction it went through (none for raw embeddings); min_dist is in *)
(* hundredths.  _UMAP_CACHE is an insertion-ordered dict.                  *)
(***************************************************************************)
_UMAP_CACHE_MAX_SIZE == 10
\* `if n_samples < 16`
MinUmapSamples == 16

\* sha256 of arr.tobytes(): the bytes alone, whatever the shape
_hash_array(arr) == arr.data

\* (arr_hash, n_neighbors, float(min_dist), n_components)
cache_key(embeddings, n_neighbors, min_dist, n_components) ==
    <<_hash_array(embeddings), n_neighbors, min_dist, n_components>>

\* reducer.fit_transform(embeddings), deterministic by random_state=42
fit_transform(embeddings, n_neighbors, min_dist, n_components) ==
    [rows |-> embeddings.rows, data |-> embeddings.data,
     reduced |-> <<n_neighbors, min_dist, n_components>>]

evict_newest(cache) == SubSeq(cache, 1, Len(cache) - 1)
\* _UMAP_CACHE.pop(next(iter(_UMAP_CACHE)))
evict_oldest(cache) == Tail(cache)

\* returns the matrix, the cache afterwards and whether fit_transform ran;
\* reducer is "ok", "missing" (ImportError) or "fails" (fit_transform raises)
compute_umap_embeddings(cache, max_size, embeddings, n_components, n_neighbors, min_dist, reducer) ==
    LET passthrough == [ret |-> embeddings, cache |-> cache, fitted |-> FALSE]
        key == cache_key(embeddings, n_neighbors, min_dist, n_components)
    IN IF reducer = "missing" THEN passthrough
       ELSE IF embeddings.rows < MinUmapSamples THEN passthrough
       ELSE IF DHas(cache, key)
       THEN [ret |-> DGet(cache, key), cache |-> cache, fitted |-> FALSE]
       ELSE IF reducer = "fails"
       THEN [ret |-> embeddings, cache |-> cache, fitted |-> TRUE]
       ELSE LET result == fit_transform(embeddings, n_neighbors, min_dist, n_components)
                room == IF Len(cache) >= max_size THEN evict_oldest(cache) ELSE cache
            IN [ret |-> result, cache |-> DSet(room, key, result), fitted |-> TRUE]

(***************************************************************************)
(* Cluster naming (arranger.py).  The lexicon tells which names resolve to  *)
(* a lexical sense and whether the LCA's sense is an ancestor of the        *)
(* medoid's; <<>> stands for None.                                          *)
(***************************************************************************)
\* lca_valid of _generate_descriptive_name
lca_valid(lca_name, medoid_term, lexicon) ==
    /\ lca_name # <<>> /\ medoid_term # <<>>
    /\ lexicon.lca_resolves /\ lexicon.medoid_resolves
    /\ \/ lexicon.lca_is_ancestor
       \/ StrLower(lca_name) = StrLower(medoid_term)

\* _generate_descriptive_name: the name and metadata["source"]
_generate_descriptive_name(lca_name, medoid_term, medoid_hypernym, lexicon) ==
    IF lca_name # <<>> /\ (medoid_term = <<>> \/ lca_valid(lca_name, medoid_term, lexicon))
    THEN [name |-> lca_name, source |-> "lca"]
    ELSE IF medoid_hypernym # <<>>
    THEN [name |-> medoid_hypernym, source |-> "medoid_hypernym"]
    ELSE [name |-> S_Group, source |-> "fallback"]

(***************************************************************************)
(* State.  Each specification below runs one component and leaves the      *)
(* variables of the other components at their idle values.                 *)
(***************************************************************************)
VARIABLES budget,     \* the TraversalBudget object under test
          history,    \* the consume() calls made so far: [amount, ret]
          tree,       \* the structure handed to ConstraintShaper
          args,       \* the arguments of shape()
          merged,     \* the result of the orphan-merge pass alone
          shaped,     \* shape(tree)
          reshaped,   \* shape(shape(tree))
          cased,      \* _normalize_casing(tree)
          source,     \* the parsed hierarchy file: parent column and synsets
          config,     \* the SmartConfig of the run
          arranger,   \* how semantic arrangement behaves in the run
          run,        \* the result of generate_tencent_hierarchy, NoRun before
          memCache,   \* _MEM_CACHE: key hash -> matrix
          dbStore,    \* the embeddings table: hash -> vector
          calls,      \* the get_cached_embeddings calls so far, one record per call
          threaded,   \* whether the workers are threads of one process
          workers,    \* per worker: its term list, its position, its locals
          memories,   \* per process: its _MEM_CACHE
          table,      \* the embeddings table all workers share
          lock,       \* the worker whose transaction holds the file's lock, or 0
          commits,    \* the committed INSERT statements, in commit order
          clusterCase, \* the terms, the fits and the namer of the arranger calls
          passOut,    \* the result of _arrange_single_pass, NotArranged before
          listOut,    \* the result of arrange_list, NotArranged before
          pruneCase,  \* the arguments of should_prune_node
          pruneOut,   \* its result, NotDecided before
          overrideCase,  \* the parent config and the node of get_child_config
          childOut,   \* the child config, NoChild before
          descendantOut, \* the config of a descendant without override, NoChild before
          umapCache,  \* _UMAP_CACHE
          umapMaxSize,  \* _UMAP_CACHE_MAX_SIZE as the run set it
          umapCall,   \* the last compute_umap_embeddings call, NoUmapCall before
          umapCount,  \* the number of calls so far
          insertedAt,  \* per cached key, the call that stored it
          usedAt,     \* per cached key, the last call that stored or returned it
          nameCase,   \* the LCA name, the medoid and the lexicon of _generate_descriptive_name
          nameOut     \* its result, NotNamed before

budgetVars == <<budget, history>>
shaperVars == <<tree, args, merged, shaped, reshaped, cased>>
traversalVars == <<source, config, arranger, run>>
cacheVars == <<memCache, dbStore, calls>>
workerVars == <<threaded, workers, memories, table, lock, commits>>
arrangerVars == <<clusterCase, passOut, listOut>>
prunerVars == <<pruneCase, pruneOut>>
overridesVars == <<overrideCase, childOut, descendantOut>>
umapVars == <<umapCache, umapMaxSize, umapCall, umapCount, insertedAt, usedAt>>
namerVars == <<nameCase, nameOut>>
vars == <<budgetVars, shaperVars, traversalVars, cacheVars, workerVars, arrangerVars, prunerVars, overridesVars, umapVars, namerVars>>

otherThanBudget == <<shaperVars, traversalVars, cacheVars, workerVars, arrangerVars, prunerVars, overridesVars, umapVars, namerVars>>
otherThanShaper == <<budgetVars, traversalVars, cacheVars, workerVars, arrangerVars, prunerVars, overridesVars, umapVars, namerVars>>
otherThanTraversal == <<budgetVars, shaperVars, cacheVars, workerVars, arrangerVars, prunerVars, overridesVars, umapVars, namerVars>>
otherThanCache == <<budgetVars, shaperVars, traversalVars, workerVars, arrangerVars, prunerVars, overridesVars, umapVars, namerVars>>
otherThanWorkers == <<budgetVars, shaperVars, traversalVars, cacheVars, arrangerVars, prunerVars, overridesVars, umapVars, namerVars>>
otherThanArranger == <<budgetVars, shaperVars, traversalVars, cacheVars, workerVars, prunerVars, overridesVars, umapVars, namerVars>>
otherThanPruner == <<budgetVars, shaperVars, traversalVars, cacheVars, workerVars, arrangerVars, overridesVars, umapVars, namerVars>>
otherThanOverrides == <<budgetVars, shaperVars, traversalVars, cacheVars, workerVars, arrangerVars, prunerVars, umapVars, namerVars>>
otherThanUmap == <<budgetVars, shaperVars, traversalVars, cacheVars, workerVars, arrangerVars, prunerVars, overridesVars, namerVars>>
otherThanNamer == <<budgetVars, shaperVars, traversalVars, cacheVars, workerVars, arrangerVars, prunerVars, overridesVars, umapVars>>

(***************************************************************************)
(* The budget as a state machine: a sequence of consume() calls            *)
(***************************************************************************)
\* one call budget.consume(amount)
Consume(amount) ==
    /\ Len(history) < MaxCalls
    /\ LET r == consume(budget, amount)
       IN /\ budget' = r.b
          /\ history' = Append(history, [amount |-> amount, ret |-> r.ret])
    /\ UNCHANGED otherThanBudget

BudgetNext == \E amount \in 1..MaxAmount : Consume(amount)

(***************************************************************************)
(* The Shaper as a state machine: an input structure and the arguments of  *)
(* a shape() call are drawn, then the passes are applied                   *)
(***************************************************************************)
K_a == <<"a">>
K_b == <<"b">>
K_General_a == S_General \o K_a
ShaperKeys == {K_a, K_b, S_misc, K_General_a}
ShaperTerms == {<<"x">>, <<"Y">>}

\* the Leaf Lists drawn: every list of at most MaxItems terms (empty,
\* unsorted and repeated terms included)
RECURSIVE ListsUpTo(_)
ListsUpTo(n) ==
    IF n = 0 THEN {<<>>}
    ELSE LET shorter == ListsUpTo(n - 1)
         IN shorter \cup { Append(xs, x) : xs \in shorter, x \in ShaperTerms }
LeafLists == { L(xs) : xs \in ListsUpTo(MaxItems) }

\* Categories with one entry, or with two entries the second of which is a
\* Leaf List
CategoriesOver(vals) ==
    { D(<<E(k1, v1)>>) : k1 \in ShaperKeys, v1 \in vals }
    \cup { D(<<E(ks[1], v1), E(ks[2], v2)>>) :
             ks \in { p \in ShaperKeys \X ShaperKeys : p[1] # p[2] },
             v1 \in vals, v2 \in LeafLists }

\* the input structures: a root Category with one entry, over Categories of
\* up to two entries, over Categories of one Leaf List
BottomNodes == LeafLists \cup { D(<<E(k1, v1)>>) : k1 \in ShaperKeys, v1 \in LeafLists }
MiddleNodes == LeafLists \cup CategoriesOver(BottomNodes)
RootKeys == {K_a, K_b}
InputTrees == { D(<<E(k1, v1)>>) : k1 \in RootKeys, v1 \in MiddleNodes }

\* the arguments of shape(); preserve_roots is only read when flatten_singles
\* is set
ShapeArgs ==
    { a \in [min_leaf_size : {0, MinLeaf}, flatten_singles : BOOLEAN,
             preserve_roots : BOOLEAN, template : {NoTemplate, K_b}] :
        a.preserve_roots => a.flatten_singles }

NotRun == PyNone

\* ConstraintShaper(tree)._merge_orphans(tree, min_leaf_size, template)
MergePass ==
    /\ merged = NotRun
    /\ merged' = merge_orphans(tree, args.min_leaf_size, args.template)
    /\ UNCHANGED <<tree, args, shaped, reshaped, cased>>
    /\ UNCHANGED otherThanShaper

\* ConstraintShaper(tree).shape(...)
Shape ==
    /\ shaped = NotRun
    /\ shaped' = shape(tree, args.min_leaf_size, args.flatten_singles,
                       args.preserve_roots, args.template)
    /\ UNCHANGED <<tree, args, merged, reshaped, cased>>
    /\ UNCHANGED otherThanShaper

\* ConstraintShaper(shaped).shape(...) with the same arguments
Reshape ==
    /\ shaped # NotRun
    /\ ~IsRaised(shaped)
    /\ reshaped = NotRun
    /\ reshaped' = shape(shaped, args.min_leaf_size, args.flatten_singles,
                         args.preserve_roots, args.template)
    /\ UNCHANGED <<tree, args, merged, shaped, cased>>
    /\ UNCHANGED otherThanShaper

ShaperNext == MergePass \/ Shape \/ Reshape

\* ConstraintShaper(tree)._normalize_casing(tree)
NormalizeCasing ==
    /\ cased = NotRun
    /\ cased' = normalize_casing(tree)
    /\ UNCHANGED <<tree, args, merged, shaped, reshaped>>
    /\ UNCHANGED otherThanShaper

QuirkNext == MergePass \/ Shape \/ NormalizeCasing

\* structures with quirks and annotations: Leaf Lists that hold an integer,
\* a string in place of a node, Categories whose child repeats the key 'a'
\* of the parent (alone or with a sibling), a Category with an integer key,
\* each Category with or without an annotation on its first key
K_A == <<"A">>
Note_p == <<"p">>
Note_q == <<"q">>
Note_r == <<"r">>
QuirkLists == { L(<<<<"x">>>>), L(<<<<"Y">>, <<"x">>>>), L(<<<<"x">>, Int1>>) }
QuirkCategories ==
    { CM(es, ca) :
        es \in { <<E(K_a, L(<<<<"x">>>>)), E(K_b, L(<<<<"Y">>>>))>>,
                 <<E(K_a, L(<<<<"x">>>>))>>,
                 <<E(K_b, L(<<<<"x">>>>))>>,
                 <<E(K_b, L(<<<<"Y">>>>))>> },
        ca \in { <<>>, <<E(K_a, Note_r)>>, <<E(K_b, Note_r)>> } }
    \cup { CM(<<E(Int1, L(<<<<"x">>>>))>>, <<>>) }
QuirkNodes == QuirkLists \cup { Str(<<"x">>) } \cup QuirkCategories

\* the arguments of shape() drawn with these structures; the template
\* "other_{}" is the documented form of orphans_label_template
QuirkArgs ==
    { a \in [min_leaf_size : {0, MinLeaf}, flatten_singles : BOOLEAN,
             preserve_roots : BOOLEAN, template : {NoTemplate, K_b, S_other_braces}] :
        a.preserve_roots => a.flatten_singles }

(***************************************************************************)
(* The traversal as a state machine: a source hierarchy, a configuration   *)
(* and an arranger are drawn, then generate_tencent_hierarchy runs         *)
(***************************************************************************)
DefaultMinDepth == 6
DefaultMinHyponyms == 10

\* the parent columns drawn: row 0 is a root, any later row is a root or the
\* child of an earlier row
RECURSIVE ParentColumns(_)
ParentColumns(n) ==
    IF n = 1 THEN { <<-1>> }
    ELSE { Append(p, q) : p \in ParentColumns(n - 1), q \in -1..(n - 2) }

\* a synset that is_synset_significant accepts: its depth is within min_depth
ShallowSynset(idx) ==
    [exists |-> TRUE, min_depth |-> DefaultMinDepth, n_hyponyms |-> 0,
     wnid |-> node_wnid(idx), lemmas |-> {StrLower(node_name(idx))}]

Sources ==
    { [parent |-> p,
       dup |-> <<>>,
       synset |-> [i \in 1..MaxNodes |->
                     IF (i - 1) \in shallow THEN ShallowSynset(i - 1) ELSE NoSynset]] :
      p \in ParentColumns(MaxNodes), shallow \in SUBSET {1, 2} }

Arrangers == {"off", "nodeps", "groups"}
\* check_dependencies() succeeds and arrange_hierarchy runs
InstalledArrangers == {"flat", "tree"}

\* the rows of a file with repeated indices, the repeated rows drawn (none,
\* or one row that gives a listed index one more parent) and the skip sets
CyclicRows == MaxNodes - 1
RepeatedRows ==
    {<<>>} \cup { <<[idx |-> i, parent |-> q]>> : i \in 0..(CyclicRows - 1),
                                                 q \in 0..(CyclicRows - 1) }
SkipSets == { {}, {node_name(1)}, {node_wnid(1), node_name(2)} }

Configs(arr) ==
    { [enabled |-> TRUE,
       min_depth |-> DefaultMinDepth,
       min_hyponyms |-> DefaultMinHyponyms,
       min_leaf_size |-> m,
       merge_orphans |-> mo,
       category_overrides |-> EmptyMap,
       semantic_cleanup |-> FALSE,
       semantic_arrangement |-> (arr # "off"),
       skip_nodes |-> {},
       orphans_label_template |-> S_other_braces,
       preview_limit |-> lim] :
      m \in {0, MinLeaf}, mo \in BOOLEAN, lim \in (1..MaxPreview) \cup {NoLimit} }

NoRun == [hierarchy |-> PyNone,
          st |-> [budget |-> NewBudget(NoLimit), events |-> <<>>, visits |-> <<>>,
                  expansions |-> <<>>, raised |-> FALSE]]

\* generate_tencent_hierarchy(smart=True, ...)
Generate ==
    /\ run = NoRun
    /\ run' = generate_tencent_hierarchy(source, arranger, config)
    /\ UNCHANGED <<source, config, arranger>>
    /\ UNCHANGED otherThanTraversal

TraversalNext == Generate

(***************************************************************************)
(* The embedding cache as a state machine: one process calls               *)
(* get_cached_embeddings on drawn term lists                               *)
(***************************************************************************)
CacheTerms == {<<"a">>, <<"b">>, <<"c">>}

\* the term lists drawn: the lists of distinct terms of length 1..MaxTerms,
\* in every order
RECURSIVE DistinctLists(_)
DistinctLists(n) ==
    IF n = 0 THEN {<<>>}
    ELSE LET shorter == DistinctLists(n - 1)
         IN shorter \cup { Append(xs, x) : xs \in shorter, x \in CacheTerms }
TermLists == { xs \in DistinctLists(MaxTerms) : xs # <<>> /\ NoDup(xs) }


\* one call get_cached_embeddings(model, terms); the record of the call also
\* keeps which tiers held the key before the call and which hold it after
GetCachedEmbeddings(terms, read_ok, write_ok) ==
    /\ Len(calls) < MaxCacheCalls
    /\ LET r == get_cached_embeddings(memCache, dbStore, terms, read_ok, write_ok)
           key == key_hash(terms)
       IN /\ memCache' = r.mem
          /\ dbStore' = r.store
          /\ calls' = Append(calls,
                 [terms |-> terms, ret |-> r.ret, encoded |-> r.encoded,
                  tier |-> r.tier, io_failed |-> r.io_failed,
                  in_mem |-> key \in DOMAIN memCache,
                  in_store |-> key \in DOMAIN dbStore,
                  mem_after |-> key \in DOMAIN r.mem,
                  store_after |-> key \in DOMAIN r.store])
    /\ UNCHANGED otherThanCache

\* _MEM_CACHE.clear()
ClearMemory ==
    /\ memCache # EmptyMap
    /\ memCache' = EmptyMap
    /\ UNCHANGED <<dbStore, calls>>
    /\ UNCHANGED otherThanCache

CacheNext ==
    \/ \E terms \in TermLists, read_ok \in BOOLEAN, write_ok \in BOOLEAN :
          GetCachedEmbeddings(terms, read_ok, write_ok)
    \/ ClearMemory

(***************************************************************************)
(* Several workers calling get_cached_embeddings against one SQLite file.  *)
(* A worker is a thread of one process (one shared _MEM_CACHE) or a        *)
(* process of its own.  Each statement of the function is one step; the    *)
(* INSERT takes the file's write lock and the end of the with block        *)
(* commits and releases it.  A statement that finds the lock held by       *)
(* another connection waits, or gives up after the connection's timeout    *)
(* with an exception that the function catches.                            *)
(***************************************************************************)
WorkerTermLists ==
    { xs \in TermLists : Len(xs) <= 2 /\ \A i \in 1..Len(xs) : xs[i] \in {<<"a">>, <<"b">>} }

WorkerIds == 1..MaxWorkers
\* the process whose _MEM_CACHE worker w uses
ProcessOf(w) == IF threaded THEN 1 ELSE w
KeyOf(w) == key_hash(workers[w].terms)
NotReturned == <<>>

\* if key_hash in _MEM_CACHE: return _MEM_CACHE[key_hash]
MemoryLookup(w) ==
    /\ workers[w].pc = "start"
    /\ workers' = [workers EXCEPT ![w] =
          IF KeyOf(w) \in DOMAIN memories[ProcessOf(w)]
          THEN [@ EXCEPT !.pc = "done", !.ret = memories[ProcessOf(w)][KeyOf(w)]]
          ELSE [@ EXCEPT !.pc = "select"]]
    /\ UNCHANGED <<threaded, memories, table, lock, commits>>
    /\ UNCHANGED otherThanWorkers

\* the SELECT sees the committed rows; a row found is stored in _MEM_CACHE
\* and returned
Select(w) ==
    /\ workers[w].pc = "select"
    /\ IF KeyOf(w) \in DOMAIN table
       THEN /\ memories' = [memories EXCEPT ![ProcessOf(w)] = MapSet(@, KeyOf(w), table[KeyOf(w)])]
            /\ workers' = [workers EXCEPT ![w] = [@ EXCEPT !.pc = "done", !.ret = table[KeyOf(w)]]]
       ELSE /\ workers' = [workers EXCEPT ![w] = [@ EXCEPT !.pc = "compute"]]
            /\ UNCHANGED memories
    /\ UNCHANGED <<threaded, table, lock, commits>>
    /\ UNCHANGED otherThanWorkers

\* the SELECT waited for another connection's lock until the timeout: the
\* exception is logged and embeddings stays None
SelectTimeout(w) ==
    /\ workers[w].pc = "select"
    /\ lock \notin {0, w}
    /\ workers' = [workers EXCEPT ![w] = [@ EXCEPT !.pc = "compute", !.timed_out = TRUE]]
    /\ UNCHANGED <<threaded, memories, table, lock, commits>>
    /\ UNCHANGED otherThanWorkers

\* embeddings = compute_list_embeddings(model, terms); _MEM_CACHE[key_hash] = embeddings
Compute(w) ==
    /\ workers[w].pc = "compute"
    /\ LET computed == compute_list_embeddings(workers[w].terms)
       IN /\ workers' = [workers EXCEPT ![w] = [@ EXCEPT !.pc = "insert", !.computed = computed]]
          /\ memories' = [memories EXCEPT ![ProcessOf(w)] = MapSet(@, KeyOf(w), computed)]
    /\ UNCHANGED <<threaded, table, lock, commits>>
    /\ UNCHANGED otherThanWorkers

\* the INSERT OR IGNORE statement starts a transaction that holds the write lock
Insert(w) ==
    /\ workers[w].pc = "insert"
    /\ lock = 0
    /\ lock' = w
    /\ workers' = [workers EXCEPT ![w] = [@ EXCEPT !.pc = "commit"]]
    /\ UNCHANGED <<threaded, memories, table, commits>>
    /\ UNCHANGED otherThanWorkers

\* the INSERT waited for another connection's lock until the timeout: the
\* exception is logged and the computed matrix is returned
InsertTimeout(w) ==
    /\ workers[w].pc = "insert"
    /\ lock \notin {0, w}
    /\ workers' = [workers EXCEPT ![w] =
          [@ EXCEPT !.pc = "done", !.ret = workers[w].computed, !.timed_out = TRUE]]
    /\ UNCHANGED <<threaded, memories, table, lock, commits>>
    /\ UNCHANGED otherThanWorkers

\* leaving the with block commits the transaction; return embeddings
Commit(w) ==
    /\ workers[w].pc = "commit"
    /\ lock = w
    /\ table' = insert_or_ignore(table, KeyOf(w), workers[w].computed)
    /\ commits' = Append(commits, [key |-> KeyOf(w), value |-> workers[w].computed])
    /\ lock' = 0
    /\ workers' = [workers EXCEPT ![w] = [@ EXCEPT !.pc = "done", !.ret = workers[w].computed]]
    /\ UNCHANGED <<threaded, memories>>
    /\ UNCHANGED otherThanWorkers

WorkersNext ==
    \E w \in WorkerIds :
        \/ MemoryLookup(w)
        \/ Select(w)
        \/ SelectTimeout(w)
        \/ Compute(w)
        \/ Insert(w)
        \/ InsertTimeout(w)
        \/ Commit(w)

(***************************************************************************)
(* The Arranger as a state machine: one clustering pass and one            *)
(* arrange_list call on a drawn term list, fit and namer                   *)
(***************************************************************************)
\* n distinct terms, not in sorted order
TermsOfLen(n) == [i \in 1..n |-> <<Lowers[n + 1 - i]>>]

ProbabilityLevels == {0, 100}
Thresholds == {50, 60}
Namers == { [base |-> S_Group, medoid |-> "first", deps |-> TRUE],
            [base |-> S_Group, medoid |-> "unset", deps |-> TRUE],
            [base |-> S_N, medoid |-> "last", deps |-> TRUE],
            [base |-> S_N, medoid |-> "first", deps |-> FALSE] }

\* the fits a clusterer can leave on n rows: up to two clusters, each of at
\* least min_cluster_size rows, noise rows with probability 0
Labelings(n, min_cluster_size) ==
    { labels \in [1..n -> {Noise, 0, 1}] :
        /\ \A l \in {0, 1} : Len(cluster_indices(labels, l)) \in {0} \cup (min_cluster_size..n)
        /\ (\E i \in 1..n : labels[i] = 1) => (\E i \in 1..n : labels[i] = 0) }
Fits(n, min_cluster_size) ==
    { [raises |-> FALSE, labels |-> labels, probabilities |-> probabilities] :
        labels \in Labelings(n, min_cluster_size),
        probabilities \in [1..n -> ProbabilityLevels] }
ValidFit(fit) == \A i \in 1..Len(fit.labels) : fit.labels[i] = Noise => fit.probabilities[i] = 0
FailedFit(n) == [raises |-> TRUE, labels |-> [i \in 1..n |-> Noise],
                 probabilities |-> [i \in 1..n |-> 0]]

\* layouts of up to two blocks of the given sizes
Blocks(sizes) == { [size |-> size, prob |-> prob] : size \in sizes, prob \in ProbabilityLevels }
Layouts(sizes, starts) ==
    { [start |-> start, blocks |-> blocks] :
        start \in starts,
        blocks \in {<<>>} \cup { <<b>> : b \in Blocks(sizes) }
                   \cup { <<b, c>> : b \in Blocks(sizes), c \in Blocks(sizes) } }
NoLayout == [start |-> 1, blocks |-> <<>>]

\* the fits drawn on a short list
ShortFits(n, m) ==
    IF n < m + 1 THEN {FailedFit(n)}
    ELSE { f \in Fits(n, m) : ValidFit(f) } \cup {FailedFit(n)}
LongTerms == TermsOfLen(RecoveryMinLeftovers + MaxGrouped)

NotArranged == [pending |-> TRUE]

\* one call _arrange_single_pass(terms, embeddings, min_cluster_size, threshold)
ArrangeSinglePass ==
    /\ passOut = NotArranged
    /\ passOut' = _arrange_single_pass(clusterCase.terms, clusterCase.fit1,
                      clusterCase.min_cluster_size, clusterCase.threshold, clusterCase.namer)
    /\ UNCHANGED <<clusterCase, listOut>>
    /\ UNCHANGED otherThanArranger

\* one call arrange_list(terms, threshold=..., min_cluster_size=...)
ArrangeList ==
    /\ listOut = NotArranged
    /\ listOut' = arrange_list(clusterCase.terms, clusterCase.fit1, clusterCase.layout2,
                      clusterCase.min_cluster_size, clusterCase.threshold, clusterCase.namer)
    /\ UNCHANGED <<clusterCase, passOut>>
    /\ UNCHANGED otherThanArranger

ArrangerNext == ArrangeSinglePass \/ ArrangeList

(***************************************************************************)
(* The pruning decision as a state machine: one call of should_prune_node  *)
(* on a drawn concept, child count, root flag and config                   *)
(***************************************************************************)
S_n1 == <<"n", "1">>
S_a == <<"a">>
S_a_b == <<"a", "_", "b">>
S_a_space_b == <<"a", " ", "b">>

\* the concepts drawn: none, or a synset around the significance thresholds
Synsets ==
    {NoSynset} \cup
    { [exists |-> TRUE, min_depth |-> depth, n_hyponyms |-> n, wnid |-> S_n1, lemmas |-> lemmas] :
        depth \in (DefaultMinDepth - 1)..(DefaultMinDepth + 1),
        n \in (DefaultMinHyponyms - 1)..(DefaultMinHyponyms + 1),
        lemmas \in {{S_a}, {S_a, S_a_b}} }
SkipLists == {{}, {S_n1}, {S_a}, {S_a_space_b}, {<<"z">>}}

NotDecided == [done |-> FALSE, flatten |-> FALSE]
NoPruneCase == [synset |-> NoSynset, child_count |-> 0, is_root |-> FALSE,
                config |-> [enabled |-> FALSE]]

\* one call should_prune_node(synset, child_count, is_root, config)
ShouldPruneNode ==
    /\ ~pruneOut.done
    /\ pruneOut' = [done |-> TRUE,
                    flatten |-> should_prune_node(pruneCase.synset, pruneCase.child_count,
                                                  pruneCase.is_root, pruneCase.config)]
    /\ UNCHANGED pruneCase
    /\ UNCHANGED otherThanPruner

PrunerNext == ShouldPruneNode

(***************************************************************************)
(* Override propagation as a state machine: get_child_config on a parent   *)
(* config with a drawn category_overrides map, then on the child config    *)
(* for a descendant that no entry names                                    *)
(***************************************************************************)
S_D == <<"D">>
S_d == <<"d">>
S_z == <<"z">>
S_q == <<"q">>
S_n2 == <<"n", "2">>
\* the keys an entry can be stored under: the node's id, its name, its
\* lower-cased name, an unrelated name
OverrideKeys == {S_n1, S_D, S_d, S_z}
\* the entries drawn
OverrideEntries ==
    { EmptyMap,
      [min_depth |-> 2],
      [min_hyponyms |-> 100, merge_orphans |-> TRUE],
      [skip_nodes |-> {S_z}],
      [SKIP_NODES |-> {S_z}],
      [preview_limit |-> 1],
      [enabled |-> FALSE, semantic_arrangement |-> TRUE] }

\* the parent SmartConfig, with values other than the constructor's defaults
ParentConfig(enabled, overrides) ==
    [enabled |-> enabled,
     min_depth |-> 5,
     min_hyponyms |-> 20,
     min_leaf_size |-> 4,
     merge_orphans |-> FALSE,
     category_overrides |-> overrides,
     semantic_cleanup |-> TRUE,
     semantic_arrangement |-> FALSE,
     skip_nodes |-> {S_a},
     orphans_label_template |-> S_other_braces,
     preview_limit |-> 2]

NoChild == [pending |-> TRUE]
NoOverrideCase == [node_name |-> <<>>]

\* child = config.get_child_config(node_name, node_wnid)
GetChildConfig ==
    /\ childOut = NoChild
    /\ childOut' = get_child_config(overrideCase.parent, overrideCase.node_name,
                                    overrideCase.node_wnid)
    /\ UNCHANGED <<overrideCase, descendantOut>>
    /\ UNCHANGED otherThanOverrides

\* child.get_child_config(name, id) for a node that no entry names
GetDescendantConfig ==
    /\ childOut # NoChild
    /\ descendantOut = NoChild
    /\ descendantOut' = get_child_config(childOut, S_q, S_n2)
    /\ UNCHANGED <<overrideCase, childOut>>
    /\ UNCHANGED otherThanOverrides

OverridesNext == GetChildConfig \/ GetDescendantConfig

(***************************************************************************)
(* The UMAP cache as a state machine: a sequence of                        *)
(* compute_umap_embeddings calls on one process's _UMAP_CACHE              *)
(***************************************************************************)
\* raw embedding matrices: two contents, each in a shape below and a shape
\* at the row threshold
UmapRows == {10, MinUmapSamples}
Matrices == { [rows |-> r, data |-> d, reduced |-> <<>>] : r \in UmapRows, d \in {"x", "y"} }
\* (n_neighbors, min_dist, n_components): the defaults and one change of each
UmapParams == { <<15, 10, 5>>, <<5, 10, 5>>, <<20, 10, 5>>, <<15, 0, 5>>, <<15, 10, 2>> }
ReducerStates == {"ok", "missing", "fails"}
NoUmapCall == [pending |-> TRUE]

\* the cached keys as a set
CachedKeys(cache) == { cache[i].k : i \in 1..Len(cache) }

ComputeUmapEmbeddings ==
    /\ umapCount < MaxUmapCalls
    /\ \E embeddings \in Matrices, params \in UmapParams, reducer \in ReducerStates :
          LET key == cache_key(embeddings, params[1], params[2], params[3])
              out == compute_umap_embeddings(umapCache, umapMaxSize, embeddings,
                                             params[3], params[1], params[2], reducer)
              kept == CachedKeys(out.cache)
              stored == kept \ CachedKeys(umapCache)
              returned == IF out.ret.reduced # <<>> THEN {key} \cap kept ELSE {}
          IN /\ umapCache' = out.cache
             /\ umapCall' = [embeddings |-> embeddings, n_neighbors |-> params[1],
                             min_dist |-> params[2], n_components |-> params[3],
                             reducer |-> reducer, key |-> key, ret |-> out.ret,
                             fitted |-> out.fitted, before |-> umapCache,
                             inserted_before |-> insertedAt, used_before |-> usedAt]
             /\ insertedAt' = [k \in kept |-> IF k \in stored THEN umapCount + 1
                                              ELSE insertedAt[k]]
             /\ usedAt' = [k \in kept |-> IF k \in stored \cup returned THEN umapCount + 1
                                          ELSE usedAt[k]]
    /\ umapCount' = umapCount + 1
    /\ UNCHANGED umapMaxSize
    /\ UNCHANGED otherThanUmap

UmapNext == ComputeUmapEmbeddings

(***************************************************************************)
(* Cluster naming as a state machine: one call of                          *)
(* _generate_descriptive_name on a drawn LCA name, medoid and lexicon      *)
(***************************************************************************)
S_fruit == <<"f","r","u","i","t">>
S_Fruit == <<"F","r","u","i","t">>
S_apple == <<"a","p","p","l","e">>
S_food == <<"f","o","o","d">>
NotNamed == [pending |-> TRUE]
NoNameCase == [lca_name |-> <<>>]

GenerateDescriptiveName ==
    /\ nameOut = NotNamed
    /\ nameOut' = _generate_descriptive_name(nameCase.lca_name, nameCase.medoid_term,
                                             nameCase.medoid_hypernym, nameCase.lexicon)
    /\ UNCHANGED nameCase
    /\ UNCHANGED otherThanNamer

NamerNext == GenerateDescriptiveName

(***************************************************************************)
(* Specifications: one per component                                       *)
(***************************************************************************)
\* the idle values of the Shaper's arguments, of the source and of the config
IdleArgs == [min_leaf_size |-> 0, flatten_singles |-> FALSE,
             preserve_roots |-> FALSE, template |-> NoTemplate]
IdleSource == [parent |-> <<>>, dup |-> <<>>, synset |-> <<>>]
IdleConfig == [enabled |-> FALSE]
NoCase == [terms |-> <<>>]

\* a TraversalBudget is constructed with a limit, or with None
BudgetInit ==
    /\ \E lim \in (0..MaxLimit) \cup {NoLimit} : budget = NewBudget(lim)
    /\ history = <<>>
    /\ tree = PyNone /\ args = IdleArgs
    /\ merged = NotRun /\ shaped = NotRun /\ reshaped = NotRun /\ cased = NotRun
    /\ source = IdleSource /\ arranger = "off" /\ config = IdleConfig /\ run = NoRun
    /\ memCache = EmptyMap /\ dbStore = EmptyMap /\ calls = <<>>
    /\ threaded = FALSE /\ workers = <<>> /\ memories = <<>>
    /\ table = EmptyMap /\ lock = 0 /\ commits = <<>>
    /\ clusterCase = NoCase /\ passOut = NotArranged /\ listOut = NotArranged
    /\ pruneCase = NoPruneCase /\ pruneOut = NotDecided
    /\ overrideCase = NoOverrideCase /\ childOut = NoChild /\ descendantOut = NoChild
    /\ umapCache = <<>> /\ umapMaxSize = 0 /\ umapCall = NoUmapCall /\ umapCount = 0
    /\ insertedAt = EmptyMap /\ usedAt = EmptyMap
    /\ nameCase = NoNameCase /\ nameOut = NotNamed

\* a ConstraintShaper is constructed on an input structure
ShaperInit ==
    /\ tree \in InputTrees
    /\ args \in ShapeArgs
    /\ merged = NotRun /\ shaped = NotRun /\ reshaped = NotRun /\ cased = NotRun
    /\ budget = NewBudget(NoLimit) /\ history = <<>>
    /\ source = IdleSource /\ arranger = "off" /\ config = IdleConfig /\ run = NoRun
    /\ memCache = EmptyMap /\ dbStore = EmptyMap /\ calls = <<>>
    /\ threaded = FALSE /\ workers = <<>> /\ memories = <<>>
    /\ table = EmptyMap /\ lock = 0 /\ commits = <<>>
    /\ clusterCase = NoCase /\ passOut = NotArranged /\ listOut = NotArranged
    /\ pruneCase = NoPruneCase /\ pruneOut = NotDecided
    /\ overrideCase = NoOverrideCase /\ childOut = NoChild /\ descendantOut = NoChild
    /\ umapCache = <<>> /\ umapMaxSize = 0 /\ umapCall = NoUmapCall /\ umapCount = 0
    /\ insertedAt = EmptyMap /\ usedAt = EmptyMap
    /\ nameCase = NoNameCase /\ nameOut = NotNamed

\* a structure with quirks: a root Category whose first key is 'a' and whose
\* second key is 'A' (the two collide in title case) or 'b', both annotated
\* or neither
QuirkInit ==
    /\ \E k2 \in {K_A, K_b}, v1 \in QuirkNodes, v2 \in QuirkNodes, annotated \in BOOLEAN :
          tree = CM(<<E(K_a, v1), E(k2, v2)>>,
                    IF annotated THEN <<E(K_a, Note_p), E(k2, Note_q)>> ELSE <<>>)
    /\ args \in QuirkArgs
    /\ merged = NotRun /\ shaped = NotRun /\ reshaped = NotRun /\ cased = NotRun
    /\ budget = NewBudget(NoLimit) /\ history = <<>>
    /\ source = IdleSource /\ arranger = "off" /\ config = IdleConfig /\ run = NoRun
    /\ memCache = EmptyMap /\ dbStore = EmptyMap /\ calls = <<>>
    /\ threaded = FALSE /\ workers = <<>> /\ memories = <<>>
    /\ table = EmptyMap /\ lock = 0 /\ commits = <<>>
    /\ clusterCase = NoCase /\ passOut = NotArranged /\ listOut = NotArranged
    /\ pruneCase = NoPruneCase /\ pruneOut = NotDecided
    /\ overrideCase = NoOverrideCase /\ childOut = NoChild /\ descendantOut = NoChild
    /\ umapCache = <<>> /\ umapMaxSize = 0 /\ umapCall = NoUmapCall /\ umapCount = 0
    /\ insertedAt = EmptyMap /\ usedAt = EmptyMap
    /\ nameCase = NoNameCase /\ nameOut = NotNamed

\* a hierarchy file, an arranger and a configuration are given
TraversalInit ==
    /\ source \in Sources
    /\ arranger \in Arrangers
    /\ config \in Configs(arranger)
    /\ run = NoRun
    /\ budget = NewBudget(NoLimit) /\ history = <<>>
    /\ tree = PyNone /\ args = IdleArgs
    /\ merged = NotRun /\ shaped = NotRun /\ reshaped = NotRun /\ cased = NotRun
    /\ memCache = EmptyMap /\ dbStore = EmptyMap /\ calls = <<>>
    /\ threaded = FALSE /\ workers = <<>> /\ memories = <<>>
    /\ table = EmptyMap /\ lock = 0 /\ commits = <<>>
    /\ clusterCase = NoCase /\ passOut = NotArranged /\ listOut = NotArranged
    /\ pruneCase = NoPruneCase /\ pruneOut = NotDecided
    /\ overrideCase = NoOverrideCase /\ childOut = NoChild /\ descendantOut = NoChild
    /\ umapCache = <<>> /\ umapMaxSize = 0 /\ umapCall = NoUmapCall /\ umapCount = 0
    /\ insertedAt = EmptyMap /\ usedAt = EmptyMap
    /\ nameCase = NoNameCase /\ nameOut = NotNamed

\* a hierarchy file and a configuration with semantic arrangement are given,
\* and the embedding dependencies are installed
ArrangedInit ==
    /\ source \in Sources
    /\ arranger \in InstalledArrangers
    /\ config \in Configs(arranger)
    /\ run = NoRun
    /\ budget = NewBudget(NoLimit) /\ history = <<>>
    /\ tree = PyNone /\ args = IdleArgs
    /\ merged = NotRun /\ shaped = NotRun /\ reshaped = NotRun /\ cased = NotRun
    /\ memCache = EmptyMap /\ dbStore = EmptyMap /\ calls = <<>>
    /\ threaded = FALSE /\ workers = <<>> /\ memories = <<>>
    /\ table = EmptyMap /\ lock = 0 /\ commits = <<>>
    /\ clusterCase = NoCase /\ passOut = NotArranged /\ listOut = NotArranged
    /\ pruneCase = NoPruneCase /\ pruneOut = NotDecided
    /\ overrideCase = NoOverrideCase /\ childOut = NoChild /\ descendantOut = NoChild
    /\ umapCache = <<>> /\ umapMaxSize = 0 /\ umapCall = NoUmapCall /\ umapCount = 0
    /\ insertedAt = EmptyMap /\ usedAt = EmptyMap
    /\ nameCase = NoNameCase /\ nameOut = NotNamed

\* a hierarchy file that may repeat the index of a row, a skip set and a
\* finite node-visit budget are given.  A skipped row that is on a cycle has
\* one child, which keeps the queue of the skipping loop short.
CyclicInit ==
    /\ \E p \in ParentColumns(CyclicRows), d \in RepeatedRows, shallow \in SUBSET {1} :
          source = [parent |-> p, dup |-> d,
                    synset |-> [i \in 1..CyclicRows |->
                                  IF (i - 1) \in shallow THEN ShallowSynset(i - 1)
                                  ELSE NoSynset]]
    /\ arranger = "off"
    /\ \E skip \in SkipSets, mo \in BOOLEAN, lim \in 1..MaxPreview :
          config = [enabled |-> TRUE,
                    min_depth |-> DefaultMinDepth,
                    min_hyponyms |-> DefaultMinHyponyms,
                    min_leaf_size |-> 0,
                    merge_orphans |-> mo,
                    category_overrides |-> EmptyMap,
                    semantic_cleanup |-> FALSE,
                    semantic_arrangement |-> FALSE,
                    skip_nodes |-> skip,
                    orphans_label_template |-> S_other_braces,
                    preview_limit |-> lim]
    /\ \A idx \in 0..(CyclicRows - 1) :
          (on_cycle(source, idx) /\ in_skip_set(config, idx))
              => Len(children_of(source, idx)) = 1
    /\ run = NoRun
    /\ budget = NewBudget(NoLimit) /\ history = <<>>
    /\ tree = PyNone /\ args = IdleArgs
    /\ merged = NotRun /\ shaped = NotRun /\ reshaped = NotRun /\ cased = NotRun
    /\ memCache = EmptyMap /\ dbStore = EmptyMap /\ calls = <<>>
    /\ threaded = FALSE /\ workers = <<>> /\ memories = <<>>
    /\ table = EmptyMap /\ lock = 0 /\ commits = <<>>
    /\ clusterCase = NoCase /\ passOut = NotArranged /\ listOut = NotArranged
    /\ pruneCase = NoPruneCase /\ pruneOut = NotDecided
    /\ overrideCase = NoOverrideCase /\ childOut = NoChild /\ descendantOut = NoChild
    /\ umapCache = <<>> /\ umapMaxSize = 0 /\ umapCall = NoUmapCall /\ umapCount = 0
    /\ insertedAt = EmptyMap /\ usedAt = EmptyMap
    /\ nameCase = NoNameCase /\ nameOut = NotNamed

\* a process starts with an empty _MEM_CACHE and an empty embeddings table
CacheInit ==
    /\ memCache = EmptyMap /\ dbStore = EmptyMap /\ calls = <<>>
    /\ budget = NewBudget(NoLimit) /\ history = <<>>
    /\ tree = PyNone /\ args = IdleArgs
    /\ merged = NotRun /\ shaped = NotRun /\ reshaped = NotRun /\ cased = NotRun
    /\ source = IdleSource /\ arranger = "off" /\ config = IdleConfig /\ run = NoRun
    /\ threaded = FALSE /\ workers = <<>> /\ memories = <<>>
    /\ table = EmptyMap /\ lock = 0 /\ commits = <<>>
    /\ clusterCase = NoCase /\ passOut = NotArranged /\ listOut = NotArranged
    /\ pruneCase = NoPruneCase /\ pruneOut = NotDecided
    /\ overrideCase = NoOverrideCase /\ childOut = NoChild /\ descendantOut = NoChild
    /\ umapCache = <<>> /\ umapMaxSize = 0 /\ umapCall = NoUmapCall /\ umapCount = 0
    /\ insertedAt = EmptyMap /\ usedAt = EmptyMap
    /\ nameCase = NoNameCase /\ nameOut = NotNamed

\* the workers start on their term lists with empty _MEM_CACHEs and an empty
\* embeddings table
WorkersInit ==
    /\ threaded \in BOOLEAN
    /\ workers \in [WorkerIds -> { [terms |-> xs, pc |-> "start", ret |-> NotReturned,
                                      computed |-> NotReturned, timed_out |-> FALSE] :
                                      xs \in WorkerTermLists }]
    /\ memories = [p \in WorkerIds |-> EmptyMap]
    /\ table = EmptyMap /\ lock = 0 /\ commits = <<>>
    /\ memCache = EmptyMap /\ dbStore = EmptyMap /\ calls = <<>>
    /\ budget = NewBudget(NoLimit) /\ history = <<>>
    /\ tree = PyNone /\ args = IdleArgs
    /\ merged = NotRun /\ shaped = NotRun /\ reshaped = NotRun /\ cased = NotRun
    /\ source = IdleSource /\ arranger = "off" /\ config = IdleConfig /\ run = NoRun
    /\ clusterCase = NoCase /\ passOut = NotArranged /\ listOut = NotArranged
    /\ pruneCase = NoPruneCase /\ pruneOut = NotDecided
    /\ overrideCase = NoOverrideCase /\ childOut = NoChild /\ descendantOut = NoChild
    /\ umapCache = <<>> /\ umapMaxSize = 0 /\ umapCall = NoUmapCall /\ umapCount = 0
    /\ insertedAt = EmptyMap /\ usedAt = EmptyMap
    /\ nameCase = NoNameCase /\ nameOut = NotNamed

\* a term list, the clusterer's fits on it and a namer are given: a short
\* list with any fit, or a list long enough for the recovery pass with fits
\* given by layouts
ArrangerInit ==
    /\ \/ \E n \in 2..MaxPassTerms, m \in {2, 3} :
             \E fit \in ShortFits(n, m), threshold \in Thresholds, namer \in Namers :
                clusterCase = [terms |-> TermsOfLen(n), fit1 |-> fit, layout2 |-> NoLayout,
                               min_cluster_size |-> m, threshold |-> threshold,
                               namer |-> namer]
       \/ \E layout1 \in Layouts({3, MaxGrouped}, {1}), layout2 \in Layouts({2, MaxGrouped}, {1, 2}) :
             \E m \in {2, 3}, namer \in Namers, terms \in {LongTerms, Sorted(LongTerms)} :
                clusterCase = [terms |-> terms, fit1 |-> FitOf(layout1, Len(LongTerms)),
                               layout2 |-> layout2, min_cluster_size |-> m,
                               threshold |-> 10, namer |-> namer]
    /\ passOut = NotArranged /\ listOut = NotArranged
    /\ threaded = FALSE /\ workers = <<>> /\ memories = <<>>
    /\ table = EmptyMap /\ lock = 0 /\ commits = <<>>
    /\ memCache = EmptyMap /\ dbStore = EmptyMap /\ calls = <<>>
    /\ budget = NewBudget(NoLimit) /\ history = <<>>
    /\ tree = PyNone /\ args = IdleArgs
    /\ merged = NotRun /\ shaped = NotRun /\ reshaped = NotRun /\ cased = NotRun
    /\ source = IdleSource /\ arranger = "off" /\ config = IdleConfig /\ run = NoRun
    /\ pruneCase = NoPruneCase /\ pruneOut = NotDecided
    /\ overrideCase = NoOverrideCase /\ childOut = NoChild /\ descendantOut = NoChild
    /\ umapCache = <<>> /\ umapMaxSize = 0 /\ umapCall = NoUmapCall /\ umapCount = 0
    /\ insertedAt = EmptyMap /\ usedAt = EmptyMap
    /\ nameCase = NoNameCase /\ nameOut = NotNamed

\* a concept, a child count, a root flag and a SmartConfig are given
PrunerInit ==
    /\ \E synset \in Synsets, child_count \in 0..MaxChildCount, is_root \in BOOLEAN :
          \E enabled \in BOOLEAN, skip_nodes \in SkipLists :
             pruneCase = [synset |-> synset, child_count |-> child_count, is_root |-> is_root,
                          config |-> [enabled |-> enabled, min_depth |-> DefaultMinDepth,
                                      min_hyponyms |-> DefaultMinHyponyms,
                                      skip_nodes |-> skip_nodes]]
    /\ pruneOut = NotDecided
    /\ clusterCase = NoCase /\ passOut = NotArranged /\ listOut = NotArranged
    /\ threaded = FALSE /\ workers = <<>> /\ memories = <<>>
    /\ table = EmptyMap /\ lock = 0 /\ commits = <<>>
    /\ memCache = EmptyMap /\ dbStore = EmptyMap /\ calls = <<>>
    /\ budget = NewBudget(NoLimit) /\ history = <<>>
    /\ tree = PyNone /\ args = IdleArgs
    /\ merged = NotRun /\ shaped = NotRun /\ reshaped = NotRun /\ cased = NotRun
    /\ source = IdleSource /\ arranger = "off" /\ config = IdleConfig /\ run = NoRun
    /\ overrideCase = NoOverrideCase /\ childOut = NoChild /\ descendantOut = NoChild
    /\ umapCache = <<>> /\ umapMaxSize = 0 /\ umapCall = NoUmapCall /\ umapCount = 0
    /\ insertedAt = EmptyMap /\ usedAt = EmptyMap
    /\ nameCase = NoNameCase /\ nameOut = NotNamed

\* a parent config with a category_overrides map, and the node entered
OverridesInit ==
    /\ \E keys \in SUBSET OverrideKeys, enabled \in BOOLEAN, wnid \in {S_n1, <<>>} :
          \E overrides \in [keys -> OverrideEntries] :
             overrideCase = [parent |-> ParentConfig(enabled, overrides),
                             node_name |-> S_D, node_wnid |-> wnid]
    /\ childOut = NoChild /\ descendantOut = NoChild
    /\ pruneCase = NoPruneCase /\ pruneOut = NotDecided
    /\ clusterCase = NoCase /\ passOut = NotArranged /\ listOut = NotArranged
    /\ threaded = FALSE /\ workers = <<>> /\ memories = <<>>
    /\ table = EmptyMap /\ lock = 0 /\ commits = <<>>
    /\ memCache = EmptyMap /\ dbStore = EmptyMap /\ calls = <<>>
    /\ budget = NewBudget(NoLimit) /\ history = <<>>
    /\ tree = PyNone /\ args = IdleArgs
    /\ merged = NotRun /\ shaped = NotRun /\ reshaped = NotRun /\ cased = NotRun
    /\ source = IdleSource /\ arranger = "off" /\ config = IdleConfig /\ run = NoRun
    /\ umapCache = <<>> /\ umapMaxSize = 0 /\ umapCall = NoUmapCall /\ umapCount = 0
    /\ insertedAt = EmptyMap /\ usedAt = EmptyMap
    /\ nameCase = NoNameCase /\ nameOut = NotNamed

\* an empty cache whose maximum size a run (or a test) has set
UmapInit ==
    /\ umapCache = <<>> /\ umapCall = NoUmapCall /\ umapCount = 0
    /\ insertedAt = EmptyMap /\ usedAt = EmptyMap
    /\ \E size \in (1..MaxUmapSize) \cup {_UMAP_CACHE_MAX_SIZE} : umapMaxSize = size
    /\ overrideCase = NoOverrideCase /\ childOut = NoChild /\ descendantOut = NoChild
    /\ pruneCase = NoPruneCase /\ pruneOut = NotDecided
    /\ clusterCase = NoCase /\ passOut = NotArranged /\ listOut = NotArranged
    /\ threaded = FALSE /\ workers = <<>> /\ memories = <<>>
    /\ table = EmptyMap /\ lock = 0 /\ commits = <<>>
    /\ memCache = EmptyMap /\ dbStore = EmptyMap /\ calls = <<>>
    /\ budget = NewBudget(NoLimit) /\ history = <<>>
    /\ tree = PyNone /\ args = IdleArgs
    /\ merged = NotRun /\ shaped = NotRun /\ reshaped = NotRun /\ cased = NotRun
    /\ source = IdleSource /\ arranger = "off" /\ config = IdleConfig /\ run = NoRun
    /\ nameCase = NoNameCase /\ nameOut = NotNamed

\* an LCA name (or none), a medoid term (or none when the distance computation
\* raised), the medoid's hypernym name (or none) and a lexicon are given; a
\* medoid has a hypernym name only when it resolves, and the ancestor
\* relation is between two resolved senses
NamerInit ==
    /\ \E lca_name \in {<<>>, S_fruit, S_Fruit}, medoid_term \in {<<>>, S_apple, S_fruit} :
          \E lca_resolves \in BOOLEAN, medoid_resolves \in BOOLEAN, lca_is_ancestor \in BOOLEAN,
             medoid_hypernym \in {<<>>, S_food} :
             /\ lca_is_ancestor => (lca_resolves /\ medoid_resolves /\ lca_name # <<>>
                                     /\ medoid_term # <<>>)
             /\ medoid_hypernym # <<>> => (medoid_resolves /\ medoid_term # <<>>)
             /\ nameCase = [lca_name |-> lca_name, medoid_term |-> medoid_term,
                             medoid_hypernym |-> medoid_hypernym,
                             lexicon |-> [lca_resolves |-> lca_resolves,
                                          medoid_resolves |-> medoid_resolves,
                                          lca_is_ancestor |-> lca_is_ancestor]]
    /\ nameOut = NotNamed
    /\ umapCache = <<>> /\ umapMaxSize = 0 /\ umapCall = NoUmapCall /\ umapCount = 0
    /\ insertedAt = EmptyMap /\ usedAt = EmptyMap
    /\ overrideCase = NoOverrideCase /\ childOut = NoChild /\ descendantOut = NoChild
    /\ pruneCase = NoPruneCase /\ pruneOut = NotDecided
    /\ clusterCase = NoCase /\ passOut = NotArranged /\ listOut = NotArranged
    /\ threaded = FALSE /\ workers = <<>> /\ memories = <<>>
    /\ table = EmptyMap /\ lock = 0 /\ commits = <<>>
    /\ memCache = EmptyMap /\ dbStore = EmptyMap /\ calls = <<>>
    /\ budget = NewBudget(NoLimit) /\ history = <<>>
    /\ tree = PyNone /\ args = IdleArgs
    /\ merged = NotRun /\ shaped = NotRun /\ reshaped = NotRun /\ cased = NotRun
    /\ source = IdleSource /\ arranger = "off" /\ config = IdleConfig /\ run = NoRun

SpecBudget == BudgetInit /\ [][BudgetNext]_vars
SpecShaper == ShaperInit /\ [][ShaperNext]_vars
SpecTraversal == TraversalInit /\ [][TraversalNext]_vars
SpecCache == CacheInit /\ [][CacheNext]_vars
SpecWorkers == WorkersInit /\ [][WorkersNext]_vars
SpecArranger == ArrangerInit /\ [][ArrangerNext]_vars
SpecPruner == PrunerInit /\ [][PrunerNext]_vars
SpecOverrides == OverridesInit /\ [][OverridesNext]_vars
SpecUmap == UmapInit /\ [][UmapNext]_vars
SpecNamer == NamerInit /\ [][NamerNext]_vars
SpecArranged == ArrangedInit /\ [][TraversalNext]_vars
SpecCyclic == CyclicInit /\ [][TraversalNext]_vars
SpecQuirks == QuirkInit /\ [][QuirkNext]_vars

(***************************************************************************)
(* Claims                                                                  *)
(***************************************************************************)
\* the calls so far were all consume(1)
OnlyUnitCalls == \A i \in 1..Len(history) : history[i].amount = 1

\* C1: with a finite limit L and only consume(1) calls, the k-th call
\* returns True exactly when k <= L (the visit that reaches the limit is
\* admitted, every later one is refused, the budget is never refilled).
C1_KthCallAdmittedIffWithinLimit ==
    (budget.limit # NoLimit /\ OnlyUnitCalls) =>
        \A k \in 1..Len(history) : history[k].ret = (k <= budget.limit)

\* C1 witness: a finite budget has admitted the visit that reaches its
\* limit and has refused two later visits
C1_Witness ==
    /\ budget.limit \in 1..MaxLimit
    /\ OnlyUnitCalls
    /\ Len(history) = budget.limit + 2
    /\ history[budget.limit].ret
    /\ ~history[budget.limit + 1].ret
    /\ ~history[budget.limit + 2].ret

\* the Leaf Lists of a structure, as a set of item sequences
RECURSIVE LeafListsOf(_)
LeafListsOf(n) ==
    IF IsList(n) THEN {n.items}
    ELSE IF IsDict(n) THEN UNION { LeafListsOf(n.kv[i].v) : i \in 1..Len(n.kv) }
    ELSE {}

\* how many list positions of a structure hold the name, ignoring case
RECURSIVE Occurrences(_, _)
Occurrences(n, name) ==
    IF IsList(n)
    THEN Cardinality({ i \in 1..Len(n.items) : StrLower(n.items[i]) = StrLower(name) })
    ELSE IF IsDict(n) /\ n.kv # <<>>
    THEN Occurrences(n.kv[1].v, name) + Occurrences(D(Tail(n.kv)), name)
    ELSE 0

\* the rows of the source that have no child, and their names
SourceLeaves == { i \in 0..(Len(source.parent) - 1) : children_of(source, i) = <<>> }
SourceLeafNames == { node_name(i) : i \in SourceLeaves }

RunDone == run # NoRun

\* C2: in a run whose budget became exhausted, exactly one "limit_reached"
\* event is in the event log, however many visits were refused.
C2_ExactlyOneLimitEvent ==
    (RunDone /\ is_exhausted(run.st.budget)) => Len(run.st.events) = 1

\* C3: with an unlimited budget and merge_orphans on (smart mode, cleaning
\* off, empty skip set), every leaf name of the source occurs, ignoring case,
\* in some Leaf List of the returned hierarchy.
C3_EveryLeafNameInOutput ==
    (RunDone /\ config.preview_limit = NoLimit /\ config.merge_orphans) =>
        \A name \in SourceLeafNames : Occurrences(run.hierarchy, name) >= 1

\* C4: with merge_orphans on, a leaf name (each occurs once in the source)
\* occurs at most once in the returned hierarchy.
C4_NoLeafNameTwice ==
    (RunDone /\ config.merge_orphans) =>
        \A name \in SourceLeafNames : Occurrences(run.hierarchy, name) <= 1

\* C4 witness: a finished run with merge_orphans on and a positive
\* min_leaf_size, over a source in which a non-root Category holds a single
\* leaf (so it dissolves and its leaf bubbles up as an orphan) next to a
\* sibling, and every leaf name is in the output exactly once
C4_Witness ==
    /\ RunDone
    /\ config.merge_orphans
    /\ config.min_leaf_size = MinLeaf
    /\ config.preview_limit = NoLimit
    /\ \E i \in 0..(Len(source.parent) - 1) :
          /\ source.parent[i + 1] # -1
          /\ Len(children_of(source, i)) = 1
          /\ Len(children_of(source, source.parent[i + 1])) >= 2
    /\ Cardinality(SourceLeaves) >= 2
    /\ \A name \in SourceLeafNames : Occurrences(run.hierarchy, name) = 1

\* C5: shaping the shaped structure again, with the same arguments, changes
\* nothing.
C5_ShapeIdempotent == reshaped # NotRun => reshaped = shaped

\* C6: every Leaf List of a shaped structure is non-empty, without
\* duplicates, lower-cased and sorted.
C6_LeafListsWellFormed ==
    shaped # NotRun =>
        \A xs \in LeafListsOf(shaped) :
            /\ xs # <<>>
            /\ NoDup(xs)
            /\ \A i \in 1..Len(xs) : xs[i] = StrLower(xs[i])
            /\ IsSorted(xs)

\* no Category of the structure has a single child whose key equals the
\* Category's own key after lower() and strip()
RECURSIVE NoSoleChildTautology(_)
NoSoleChildTautology(n) ==
    IsDict(n) =>
        \A i \in 1..Len(n.kv) :
            LET e == n.kv[i]
            IN /\ (IsDict(e.v) /\ Len(e.v.kv) = 1) =>
                      StrStrip(StrLower(e.v.kv[1].k)) # StrStrip(StrLower(e.k))
               /\ NoSoleChildTautology(e.v)

\* C7: no Category of a shaped structure has a sole child whose key equals
\* its own key, ignoring case and surrounding blanks.
C7_NoTautologyInOutput == shaped # NotRun => NoSoleChildTautology(shaped)

\* no Category of the structure has exactly one entry whose value is a
\* Category
RECURSIVE NoSingleCategoryEntry(_)
NoSingleCategoryEntry(n) ==
    IsDict(n) =>
        /\ ~(Len(n.kv) = 1 /\ IsDict(n.kv[1].v))
        /\ \A i \in 1..Len(n.kv) : NoSingleCategoryEntry(n.kv[i].v)

\* C8: with flatten_singles on, no Category with exactly one entry whose
\* value is a sub-Category is left in the shaped structure; with
\* preserve_roots only the top-level wrapper may be one.
C8_SingleCategoriesPromoted ==
    (shaped # NotRun /\ args.flatten_singles) =>
        IF args.preserve_roots
        THEN IsDict(shaped) => \A i \in 1..Len(shaped.kv) : NoSingleCategoryEntry(shaped.kv[i].v)
        ELSE NoSingleCategoryEntry(shaped)

\* the destination label of the merge pass for the drawn templates
DestinationLabel == IF args.template = NoTemplate THEN S_Other ELSE args.template

\* in every Category, a list-valued key that is short or a generic bin is
\* the destination label, and the destination list is deduplicated and sorted
RECURSIVE SmallListsMerged(_)
SmallListsMerged(n) ==
    IsDict(n) =>
        \A i \in 1..Len(n.kv) :
            LET e == n.kv[i]
            IN /\ (IsList(e.v) /\ (Len(e.v.items) < args.min_leaf_size
                                    \/ is_existing_generic(e.k))) =>
                      (e.k = DestinationLabel /\ NoDup(e.v.items))
               /\ SmallListsMerged(e.v)

\* C9: after the orphan-merge pass every list-valued key with fewer than
\* min_leaf_size items and every generic-bin key has been removed from its
\* Category, its items being in the single destination list, also when the
\* destination label already exists in the Category as a sub-Category.
C9_SmallListsRemoved == merged # NotRun => SmallListsMerged(merged)

\* C10: every call of get_cached_embeddings returned one row per term, row i
\* being the encoder's vector for terms[i] of that call.
C10_RowsInInputOrder ==
    \A c \in 1..Len(calls) :
        /\ Len(calls[c].ret) = Len(calls[c].terms)
        /\ \A i \in 1..Len(calls[c].terms) : calls[c].ret[i] = VectorOf(calls[c].terms[i])

\* no statement on the SQLite file raised in any call so far
StoreWorking == \A c \in 1..Len(calls) : ~calls[c].io_failed

\* C11: with a working persistent tier, in any sequence of calls and memory
\* clears the encoder runs at most once per cache key; each call is answered
\* by the memory tier when it holds the key, else by the persistent tier when
\* that holds the key (and the memory tier holds it afterwards), else by the
\* encoder, whose result is then in both tiers
C11_EncoderAtMostOncePerKey ==
    StoreWorking =>
        /\ \A c \in 1..Len(calls), d \in 1..Len(calls) :
              (c < d /\ key_hash(calls[c].terms) = key_hash(calls[d].terms))
                  => ~(calls[c].encoded /\ calls[d].encoded)
        /\ \A c \in 1..Len(calls) :
              /\ calls[c].tier = (IF calls[c].in_mem THEN "memory"
                                  ELSE IF calls[c].in_store THEN "store"
                                  ELSE "encoder")
              /\ calls[c].encoded = (calls[c].tier = "encoder")
              /\ calls[c].mem_after
              /\ calls[c].tier = "encoder" => calls[c].store_after

\* computed once, answered from memory, memory cleared, answered from the store
C11_Witness ==
    /\ StoreWorking
    /\ Len(calls) = 3
    /\ key_hash(calls[1].terms) = key_hash(calls[2].terms)
    /\ key_hash(calls[1].terms) = key_hash(calls[3].terms)
    /\ calls[1].tier = "encoder" /\ calls[2].tier = "memory" /\ calls[3].tier = "store"

AllDone == \A w \in WorkerIds : workers[w].pc = "done"
NoTimeout == \A w \in WorkerIds : ~workers[w].timed_out
CalledKeys == { key_hash(workers[w].terms) : w \in WorkerIds }
\* the position in commits of the first committed write of a key, 0 if none
FirstCommit(key) ==
    IF \E i \in 1..Len(commits) : commits[i].key = key
    THEN CHOOSE i \in 1..Len(commits) :
            /\ commits[i].key = key
            /\ \A j \in 1..(i - 1) : commits[j].key # key
    ELSE 0

PassDone == passOut # NotArranged
ListDone == listOut # NotArranged
\* the term lists of a groups mapping, in the mapping's order
GroupLists(groups) == [i \in 1..Len(groups) |-> groups[i].v]
\* xs holds every element of ys exactly once and nothing else
IsPartitionOf(xs, ys) ==
    /\ Len(xs) = Len(ys)
    /\ \A y \in SeqRange(ys) :
          Cardinality({ i \in 1..Len(xs) : xs[i] = y })
              = Cardinality({ i \in 1..Len(ys) : ys[i] = y })
\* the members of cluster label in the drawn fit, and their mean probability
\* against the threshold
MembersOf(label) ==
    { clusterCase.terms[i] : i \in { j \in 1..Len(clusterCase.terms) : clusterCase.fit1.labels[j] = label } }
MeanAtLeastThreshold(label) ==
    LET members == { j \in 1..Len(clusterCase.terms) : clusterCase.fit1.labels[j] = label }
        RECURSIVE total(_)
        total(js) == IF js = {} THEN 0
                     ELSE LET j == CHOOSE x \in js : TRUE
                          IN clusterCase.fit1.probabilities[j] + total(js \ {j})
    IN total(members) >= clusterCase.threshold * Cardinality(members)

\* C13: after one clustering pass, a cluster of the fit is one of the named
\* groups exactly when the mean membership probability of its members is at
\* least the threshold; the groups and the leftovers together hold every
\* input term exactly once; the members of rejected clusters and the
\* unassigned terms are leftovers
C13_AcceptedIffMeanAtLeastThreshold ==
    PassDone =>
        /\ IsPartitionOf(Flat(GroupLists(passOut.groups)) \o passOut.leftovers,
                         clusterCase.terms)
        /\ passOut.clustered =>
             /\ \A label \in SeqRange(clusterCase.fit1.labels) \ {Noise} :
                   /\ (\E g \in 1..Len(passOut.groups) :
                          SeqRange(passOut.groups[g].v) = MembersOf(label))
                       <=> MeanAtLeastThreshold(label)
                   /\ ~MeanAtLeastThreshold(label)
                       => MembersOf(label) \subseteq SeqRange(passOut.leftovers)
             /\ MembersOf(Noise) \subseteq SeqRange(passOut.leftovers)
             /\ \A g \in 1..Len(passOut.groups) :
                   \E label \in SeqRange(clusterCase.fit1.labels) \ {Noise} :
                       SeqRange(passOut.groups[g].v) = MembersOf(label)

\* a pass with an accepted cluster, a rejected cluster that has a member at
\* or above the threshold, and an unassigned term
C13_Witness ==
    /\ PassDone /\ passOut.clustered
    /\ Len(passOut.groups) = 1
    /\ \E label \in SeqRange(clusterCase.fit1.labels) \ {Noise} :
          /\ ~MeanAtLeastThreshold(label)
          /\ \E i \in 1..Len(clusterCase.terms) :
                /\ clusterCase.fit1.labels[i] = label
                /\ clusterCase.fit1.probabilities[i] >= clusterCase.threshold
    /\ MembersOf(Noise) # {}

\* C14: in the groups mapping returned by arrange_list the groups appear in
\* non-increasing order of size, also when the recovery pass added groups
C14_GroupsInNonIncreasingSize ==
    ListDone =>
        \A i \in 1..Len(listOut.groups), j \in 1..Len(listOut.groups) :
            i < j => Len(listOut.groups[i].v) >= Len(listOut.groups[j].v)

\* without the recovery pass the groups are in non-increasing order of size
GroupsOrderedWithoutRecovery ==
    (ListDone /\ ~listOut.recovered) =>
        \A i \in 1..Len(listOut.groups), j \in 1..Len(listOut.groups) :
            i < j => Len(listOut.groups[i].v) >= Len(listOut.groups[j].v)

\* the drawn concept's identifier or one of its lemmas, as written or with
\* blanks for underscores, is in skip_nodes
InSkipNodes ==
    /\ pruneCase.synset.exists
    /\ \/ pruneCase.synset.wnid \in pruneCase.config.skip_nodes
       \/ \E lemma \in pruneCase.synset.lemmas :
             \/ lemma \in pruneCase.config.skip_nodes
             \/ UnderscoreToSpace(lemma) \in pruneCase.config.skip_nodes
\* the drawn concept is significant: depth <= min_depth or hyponyms >= min_hyponyms
Significant ==
    /\ pruneCase.synset.exists
    /\ \/ pruneCase.synset.min_depth <= pruneCase.config.min_depth
       \/ pruneCase.synset.n_hyponyms >= pruneCase.config.min_hyponyms

\* C15: should_prune_node answers False for a disabled config; else False
\* for the root; else True for a concept in skip_nodes; else True for a child
\* count of at most one; else the negation of the concept's significance
C15_DecisionOrder ==
    pruneOut.done =>
        /\ ~pruneCase.config.enabled => ~pruneOut.flatten
        /\ (pruneCase.config.enabled /\ pruneCase.is_root) => ~pruneOut.flatten
        /\ (pruneCase.config.enabled /\ ~pruneCase.is_root /\ InSkipNodes) => pruneOut.flatten
        /\ (pruneCase.config.enabled /\ ~pruneCase.is_root /\ pruneCase.child_count <= 1)
              => pruneOut.flatten
        /\ (pruneCase.config.enabled /\ ~pruneCase.is_root /\ ~InSkipNodes
              /\ pruneCase.child_count > 1) => (pruneOut.flatten <=> ~Significant)

\* a significant concept with one child was flattened
C15_Witness ==
    /\ pruneOut.done /\ pruneOut.flatten
    /\ pruneCase.config.enabled /\ ~pruneCase.is_root /\ ~InSkipNodes
    /\ Significant /\ pruneCase.child_count = 1

ChildDone == childOut # NoChild
DescendantDone == descendantOut # NoChild
\* the entry the node's id or name designates: the one keyed by the id when
\* there is one, else the one keyed by the name, else the one keyed by the
\* lower-cased name
HasDesignatedEntry ==
    LET overrides == overrideCase.parent.category_overrides
    IN \/ (overrideCase.node_wnid # <<>> /\ overrideCase.node_wnid \in DOMAIN overrides)
       \/ overrideCase.node_name \in DOMAIN overrides
       \/ StrLower(overrideCase.node_name) \in DOMAIN overrides
DesignatedEntry ==
    LET overrides == overrideCase.parent.category_overrides
    IN IF overrideCase.node_wnid # <<>> /\ overrideCase.node_wnid \in DOMAIN overrides
       THEN overrides[overrideCase.node_wnid]
       ELSE IF overrideCase.node_name \in DOMAIN overrides
       THEN overrides[overrideCase.node_name]
       ELSE overrides[StrLower(overrideCase.node_name)]
\* the fields every override may set and no special rule touches
PlainFields == {"min_depth", "min_hyponyms", "min_leaf_size", "merge_orphans",
                "semantic_cleanup", "semantic_arrangement", "orphans_label_template"}
\* the Smart Config fields of the model
RecognizedFields == DOMAIN overrideCase.parent

\* C16: for an enabled config, the entry keyed by the id is the one applied
\* when there is one, whatever it holds and whatever is keyed by the name;
\* else the entry keyed by the name or its lower-cased form; with no entry
\* the parent config is returned unchanged
C16_IdEntryTakesPrecedence ==
    (ChildDone /\ overrideCase.parent.enabled) =>
        IF HasDesignatedEntry
        THEN \A f \in PlainFields :
                childOut[f] = IF f \in DOMAIN DesignatedEntry THEN DesignatedEntry[f]
                              ELSE overrideCase.parent[f]
        ELSE childOut = overrideCase.parent

\* the designated entry is not empty and is the one get_child_config selected
MatchingOverride ==
    /\ overrideCase.parent.enabled
    /\ HasDesignatedEntry
    /\ DOMAIN DesignatedEntry # {}
    /\ DesignatedEntry = select_override(overrideCase.parent.category_overrides,
                                         overrideCase.node_name, overrideCase.node_wnid)

\* C17: under a matching override the child config has the override's value
\* on every field the override names and the parent's value on every other
\* field, category_overrides included; a descendant that no entry names gets
\* the child config unchanged
C17_ChildTakesOverrideElseParent ==
    (ChildDone /\ MatchingOverride) =>
        /\ \A f \in RecognizedFields :
              childOut[f] = IF f \in DOMAIN DesignatedEntry THEN DesignatedEntry[f]
                            ELSE overrideCase.parent[f]
        /\ childOut.category_overrides = overrideCase.parent.category_overrides
        /\ DescendantDone => descendantOut = childOut

\* what does hold under a matching override: the plain fields follow the
\* override or the parent, enabled and category_overrides are the parent's,
\* and the descendant inherits the child config
OverridePropagatesPlainFields ==
    (ChildDone /\ MatchingOverride) =>
        /\ \A f \in PlainFields :
              childOut[f] = IF f \in DOMAIN DesignatedEntry THEN DesignatedEntry[f]
                            ELSE overrideCase.parent[f]
        /\ childOut.enabled = overrideCase.parent.enabled
        /\ childOut.category_overrides = overrideCase.parent.category_overrides
        /\ DescendantDone => descendantOut = childOut

UmapCalled == umapCall # NoUmapCall
\* the last call stored its result
UmapStored == UmapCalled /\ umapCall.key \in CachedKeys(umapCache) \ CachedKeys(umapCall.before)
\* the last call went past the import and the row check, to the cache lookup
ReachedLookup ==
    UmapCalled /\ umapCall.reducer # "missing" /\ umapCall.embeddings.rows >= MinUmapSamples

\* C18: a call on fewer than n_neighbors + 1 rows returns the input matrix
\* unchanged and leaves the cache as it was, for every n_neighbors; a call on
\* at least n_neighbors + 1 rows with a working reducer returns the reduced
\* matrix and has it in the cache afterwards
C18_PassthroughBelowNeighborsPlusOne ==
    UmapCalled =>
        /\ umapCall.embeddings.rows < umapCall.n_neighbors + 1 =>
              (umapCall.ret = umapCall.embeddings /\ umapCache = umapCall.before)
        /\ (umapCall.embeddings.rows >= umapCall.n_neighbors + 1 /\ umapCall.reducer = "ok") =>
              /\ umapCall.ret.reduced # <<>>
              /\ DHas(umapCache, umapCall.key)
              /\ DGet(umapCache, umapCall.key) = umapCall.ret

\* what the code does instead: the row threshold is 16 whatever n_neighbors is
PassthroughBelowSixteenRows ==
    UmapCalled =>
        /\ umapCall.embeddings.rows < MinUmapSamples =>
              (umapCall.ret = umapCall.embeddings /\ umapCache = umapCall.before)
        /\ (umapCall.embeddings.rows >= MinUmapSamples /\ umapCall.reducer = "ok") =>
              /\ umapCall.ret.reduced # <<>>
              /\ DHas(umapCache, umapCall.key)
              /\ DGet(umapCache, umapCall.key) = umapCall.ret

\* the key the last call removed from the cache, as a set
EvictedKeys == CachedKeys(umapCall.before) \ CachedKeys(umapCache)

CacheHitReached ==
    /\ ReachedLookup
    /\ DHas(umapCall.before, umapCall.key)
    /\ umapCall.ret = DGet(umapCall.before, umapCall.key)
    /\ umapCall.reducer = "fails"

\* the position of a visited node in the visit order
VisitOf(idx) == CHOOSE i \in 1..Len(run.st.visits) : run.st.visits[i] = idx
Visited(idx) == \E i \in 1..Len(run.st.visits) : run.st.visits[i] = idx
\* two different rows of the source with the same parent node, both visited
VisitedSiblings(a, b) ==
    /\ a # b
    /\ source.parent[a + 1] = source.parent[b + 1]
    /\ source.parent[a + 1] # -1
    /\ Visited(a) /\ Visited(b)
SourceRows == { i - 1 : i \in 1..Len(source.parent) }
NameBefore(a, b) == StrLess(StrLower(node_name(a)), StrLower(node_name(b)))

\* C20: the children of a node kept as a Category are visited in the order
\* in which the source lists them: of two visited children of one node, the
\* one on the earlier row is visited first
C20_ChildrenVisitedInSourceOrder ==
    (run # NoRun) =>
        \A a, b \in SourceRows :
            (VisitedSiblings(a, b) /\ a < b) => VisitOf(a) < VisitOf(b)

\* C20 amended: of two visited children of one node, the one whose
\* case-folded name sorts first is visited first, and no node is visited
\* twice
C20_ChildrenVisitedInNameOrder ==
    (run # NoRun) =>
        /\ \A a, b \in SourceRows :
              (VisitedSiblings(a, b) /\ NameBefore(a, b)) => VisitOf(a) < VisitOf(b)
        /\ \A i, j \in 1..Len(run.st.visits) :
              run.st.visits[i] = run.st.visits[j] => i = j

\* C20 witness: a run visited two children of one node, the one on the later
\* row first because its case-folded name sorts first
C20_Witness ==
    /\ run # NoRun
    /\ \E a, b \in SourceRows :
          /\ VisitedSiblings(a, b) /\ a < b
          /\ NameBefore(b, a)
          /\ VisitOf(b) < VisitOf(a)

\* the clusters a pass accepted
AcceptedIn(pass) == pass.n_clusters_found - pass.n_clusters_rejected
\* the terms of all groups, one after the other
GroupedTerms(groups) == Flat([i \in 1..Len(groups) |-> groups[i].v])

\* C27: every accepted cluster has its own entry in the groups of
\* arrange_list and of a single pass: the names are pairwise distinct, there
\* are as many groups as accepted clusters in both passes together, and the
\* groups hold as many terms as the accepted clusters (none overwritten)
C27_OneGroupPerAcceptedCluster ==
    /\ ListDone =>
          /\ NoDup(DKeys(listOut.groups))
          /\ Len(listOut.groups) = AcceptedIn(listOut.pass_1) + AcceptedIn(listOut.pass_2)
          /\ Len(GroupedTerms(listOut.groups)) + Len(listOut.leftovers) = Len(clusterCase.terms)
    /\ PassDone =>
          /\ Len(passOut.groups) = AcceptedIn(passOut)
          /\ Len(GroupedTerms(passOut.groups)) + Len(passOut.leftovers) = Len(clusterCase.terms)

\* C27 witness: the recovery pass ran, two of its clusters got the same name
\* (the second an integer suffix), and one of its names was already taken by
\* a group of the primary pass
C27_Witness ==
    /\ ListDone /\ listOut.recovered
    /\ Len(listOut.pass_1.groups) = 1 /\ Len(listOut.pass_2.groups) = 2
    /\ listOut.pass_2.groups[1].k = listOut.pass_1.groups[1].k
    /\ listOut.pass_2.groups[2].k = listOut.pass_2.groups[1].k \o <<" ", "2">>
    /\ Len(listOut.groups) = 3

\* C30: in the recovery pass, row i of the matrix handed to the second
\* clustering pass is the embedding of the i-th leftover term handed to it,
\* and the matrix has one row per leftover term
C30_RecoveryRowsMatchLeftovers ==
    (ListDone /\ listOut.recovered) =>
        listOut.recovery_embeddings = embeddings_of(listOut.pass_1.leftovers)

\* what holds instead: the rows are the embeddings of the leftover terms in
\* the order of the input list, which is the order of the sorted leftovers
\* only when the input list was sorted
RecoveryRowsInInputOrder ==
    (ListDone /\ listOut.recovered) =>
        /\ Len(listOut.recovery_embeddings) = Len(listOut.pass_1.leftovers)
        /\ { listOut.recovery_embeddings[i] : i \in 1..Len(listOut.recovery_embeddings) }
              = { [of |-> normalize_term(t)] : t \in SeqRange(listOut.pass_1.leftovers) }
        /\ clusterCase.terms = Sorted(clusterCase.terms) =>
              listOut.recovery_embeddings = embeddings_of(listOut.pass_1.leftovers)

Named == nameOut # NotNamed
\* the LCA name and the medoid term both resolve to a lexical sense
BothResolve == nameCase.lexicon.lca_resolves /\ nameCase.lexicon.medoid_resolves

\* C26: with an LCA name, the LCA is chosen (source "lca") whenever the LCA
\* name or the medoid term does not resolve; it gives way to the medoid
\* hypernym or to "Group" only when both resolve and the LCA's sense is not
\* an ancestor of the medoid's
C26_UnresolvedMeansLcaValid ==
    (Named /\ nameCase.lca_name # <<>>) =>
        /\ ~BothResolve => (nameOut.source = "lca" /\ nameOut.name = nameCase.lca_name)
        /\ nameOut.source # "lca" => (BothResolve /\ ~nameCase.lexicon.lca_is_ancestor)

\* what the code does: with an LCA name and a medoid term, the LCA is chosen
\* only when both resolve and the LCA is an ancestor of the medoid or has
\* the medoid's name; without a medoid term the LCA is chosen
LcaChosenOnlyWhenBothResolve ==
    (Named /\ nameCase.lca_name # <<>>) =>
        (nameOut.source = "lca" <=>
            \/ nameCase.medoid_term = <<>>
            \/ /\ BothResolve
               /\ \/ nameCase.lexicon.lca_is_ancestor
                  \/ StrLower(nameCase.lca_name) = StrLower(nameCase.medoid_term))

(***************************************************************************)
(* Claims about exceptions, skipped rows and cycles in the traversal       *)
(***************************************************************************)
\* C21: with semantic arrangement enabled and the embedding dependencies
\* installed, generate_tencent_hierarchy returns a structure whatever the
\* arrangement step produces for a flattened list or for pooled orphans (a
\* mapping of groups, a flat list, the short-circuit triple): no exception
\* reaches the caller
C21_ArrangedTraversalReturns == RunDone => ~run.st.raised

\* the arrangement step ran on a list of exactly three terms, the one length
\* at which the unpacking of a list succeeds
ThreeTermsArranged ==
    /\ RunDone
    /\ ~run.st.raised
    /\ \E i \in 1..Len(run.hierarchy.kv) :
          /\ IsDict(run.hierarchy.kv[i].v)
          /\ \E j \in 1..Len(run.hierarchy.kv[i].v.kv) : IsStr(run.hierarchy.kv[i].v.kv[j].v)

\* C28: in every expansion of a kept Category the loop made at most
\* SkipSafetyBound promotions and no row of the skip set is among the
\* effective children (each was replaced by its own children), also when
\* the skipped rows form a cycle
C28_SkippedChildrenAreReplaced ==
    RunDone =>
        \A i \in 1..Len(run.st.expansions) :
            LET expansion == run.st.expansions[i]
            IN /\ expansion.processed_skips <= SkipSafetyBound
               /\ \A k \in 1..Len(expansion.effective) :
                     ~in_skip_set(config, expansion.effective[k])

\* the promotions of one parent never exceed the safety bound
PromotionsWithinSafetyBound ==
    RunDone =>
        \A i \in 1..Len(run.st.expansions) :
            run.st.expansions[i].processed_skips <= SkipSafetyBound

\* a skipped row off every cycle is never an effective child
SkippedRowsOffCyclesAreReplaced ==
    RunDone =>
        \A i \in 1..Len(run.st.expansions) :
            \A k \in 1..Len(run.st.expansions[i].effective) :
                LET c_idx == run.st.expansions[i].effective[k]
                IN in_skip_set(config, c_idx) => on_cycle(source, c_idx)

\* a loop that stopped promoting at the safety bound
SafetyBoundReached ==
    /\ RunDone
    /\ \E i \in 1..Len(run.st.expansions) :
          run.st.expansions[i].processed_skips = SkipSafetyBound

\* the rows that can be reached from a root, and a cycle among them
ReachableRows == descendants(source, SeqRange(roots_of(source)), {})
CycleReachable == \E idx \in ReachableRows : on_cycle(source, idx)

\* C29: with a finite budget, the traversal of a source whose child relation
\* has a cycle ends by returning a structure: the budget bounds every
\* recursion over the source, collect_leaves included
C29_CyclicTraversalReturns == (RunDone /\ CycleReachable) => ~run.st.raised

(***************************************************************************)
(* Claims about annotations, key collisions, labels and quirks in the      *)
(* Shaper                                                                  *)
(***************************************************************************)
\* the root keys of the input whose title-cased form no other root key shares
TitleIsUnique(i) ==
    \A j \in 1..Len(tree.kv) :
        (j # i /\ IsPyStr(tree.kv[j].k)) => StrTitle(tree.kv[j].k) # StrTitle(tree.kv[i].k)

\* C22: the annotations of the input survive every Shaper pass: an annotated
\* key of the input whose value is a Category, and which the output keeps in
\* title case, carries its annotation in the output, also when a child that
\* repeated the key was pruned as a tautology
C22_AnnotationsSurviveShaping ==
    (shaped # NotRun /\ IsDict(shaped)) =>
        \A i \in 1..Len(tree.kv) :
            LET key == tree.kv[i].k
            IN (/\ IsPyStr(key)
                /\ DHas(tree.ca, key)
                /\ IsDict(tree.kv[i].v)
                /\ TitleIsUnique(i)
                /\ DHas(shaped.kv, StrTitle(key)))
               => (/\ DHas(shaped.ca, StrTitle(key))
                   /\ DGet(shaped.ca, StrTitle(key)) = DGet(tree.ca, key))

\* the sub-keys that two Categories share and that hold a Leaf List in both
SharedListKeys(v1, v2) ==
    { key \in SeqRange(DKeys(v1.kv)) \cap SeqRange(DKeys(v2.kv)) :
        IsPyStr(key) /\ IsList(DGet(v1.kv, key)) /\ IsList(DGet(v2.kv, key)) }

\* C23: in the casing pass, when two keys of a Category title-case to the
\* same string and both values are Categories, a sub-key present in both
\* holds the sorted, deduplicated union of the two Leaf Lists
C23_CollidingCategoriesMergeLists ==
    (cased # NotRun /\ IsDict(cased)) =>
        \A i, j \in 1..Len(tree.kv) :
            LET e1 == tree.kv[i]
                e2 == tree.kv[j]
            IN (/\ i < j
                /\ IsPyStr(e1.k) /\ IsPyStr(e2.k)
                /\ StrTitle(e1.k) = StrTitle(e2.k)
                /\ IsDict(e1.v) /\ IsDict(e2.v))
               => \A key \in SharedListKeys(e1.v, e2.v) :
                    LET both == DGet(cased.kv, StrTitle(e1.k))
                    IN /\ IsDict(both)
                       /\ DHas(both.kv, StrTitle(key))
                       /\ DGet(both.kv, StrTitle(key))
                            = normalize_casing(L(DGet(e1.v.kv, key).items \o DGet(e2.v.kv, key).items))

\* a Category has a Leaf List shorter than min_size among its values
HasSmallList(v, min_size) ==
    \E i \in 1..Len(v.kv) : IsList(v.kv[i].v) /\ Len(v.kv[i].v.items) < min_size

\* C24: in the orphan-merge pass, the destination label of a Category with
\* small Leaf Lists is the template formatted with the key of that Category
\* when the template contains "{}", and the template itself otherwise
C24_LabelIsFormattedTemplate ==
    (merged # NotRun /\ IsDict(merged) /\ args.template # NoTemplate) =>
        \A i \in 1..Len(tree.kv) :
            LET e == tree.kv[i]
                label == IF HasBraces(args.template)
                         THEN StrFormat(args.template, e.k)
                         ELSE args.template
            IN (IsPyStr(e.k) /\ IsDict(e.v) /\ HasSmallList(e.v, args.min_leaf_size))
               => DHas(DGet(merged.kv, e.k).kv, label)

\* C25: shape never raises on a structural quirk: whatever the keys, the
\* items and the values of the input are, shape returns a structure
C25_ShapeNeverRaises == shaped # NotRun => ~IsRaised(shaped)

====
